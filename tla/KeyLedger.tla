------------------------------ MODULE KeyLedger ------------------------------
(***************************************************************************)
(* What the idempotency keys promise, however many engines share the state *)
(* file and however late a request arrives: an account has at most one     *)
(* open attempt, a key is used for one attempt and its verdict is final,   *)
(* and the service redeems for a key only once it was opened, once, and    *)
(* while the attempt is open only the credit it was opened for. Unlike     *)
(* AttemptLedger, it lets a closed attempt be redeemed.                    *)
(***************************************************************************)
CONSTANTS Accounts, Credits, Keys

VARIABLES
  open,      \* the open attempts: which key, for whose credit
  fate,      \* fate[k]: "unused", "open", "success" or "failed"
  redeemed   \* the redemptions: which key, of whose credit

vars == <<open, fate, redeemed>>

Entries == [key : Keys, acct : Accounts, credit : Credits]

Init ==
  /\ open = {}
  /\ fate = [k \in Keys |-> "unused"]
  /\ redeemed = {}

Open(r) ==
  /\ fate[r.key] = "unused"
  /\ \A s \in open : s.acct # r.acct
  /\ open' = open \cup {r}
  /\ fate' = [fate EXCEPT ![r.key] = "open"]
  /\ UNCHANGED redeemed

\* The key was opened, and if it still is, for this credit; neither the key nor
\* the credit was redeemed before.
Redeem(r) ==
  /\ fate[r.key] # "unused"
  /\ fate[r.key] = "open" => r \in open
  /\ \A s \in redeemed :
       s.key # r.key /\ (s.acct = r.acct => s.credit # r.credit)
  /\ redeemed' = redeemed \cup {r}
  /\ UNCHANGED <<open, fate>>

Close(r, verdict) ==
  /\ r \in open /\ fate[r.key] = "open"
  /\ open' = open \ {r}
  /\ fate' = [fate EXCEPT ![r.key] = verdict]
  /\ UNCHANGED redeemed

Next ==
  \E r \in Entries :
    \/ Open(r)
    \/ Redeem(r)
    \/ \E verdict \in {"success", "failed"} : Close(r, verdict)

Spec == Init /\ [][Next]_vars
==============================================================================
