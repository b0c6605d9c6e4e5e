--------------------------- MODULE ResetEngineProps ---------------------------
(***************************************************************************)
(* The properties of ResetEngine, and the ledger it implements.            *)
(***************************************************************************)
EXTENDS ResetEngine

\* The local variables each stage of a scan relies on: the account, the credit
\* and fingerprint of a new attempt, the attempt on file or in flight.
StageFits(stage, j) ==
  /\ stage \notin {"idle", "reconcile", "next"} => j.acct \in Accounts
  /\ stage = "usage" /\ j.plan = "resolve" => j.attempt \in Attempts
  /\ stage \in {"recheck", "persist"} => j.credit \in Credits
  /\ stage = "persist" => j.fp \in Fingerprints
  /\ stage \in {"consume", "await", "settle", "vcredits", "vusage", "complete"}
       => j.attempt \in Attempts

EngineTypeOK ==
  /\ life \in [Engines -> {"running", "stopping", "cancelled", "down"}]
  /\ pc \in [Engines -> Stages]
  /\ job \in [Engines -> Jobs]
  /\ \A e \in Engines : StageFits(pc[e], job[e])

\* Every variable stays within the values the code can give it; in particular
\* no stage is entered, and no attempt written, without the account, credit or
\* attempt it dereferences (the early returns of processAccount).
TypeOK ==
  /\ disk \in [Accounts -> AccountStates]
  /\ mgmtCooling \in BOOLEAN
  /\ EngineTypeOK
  /\ host \in [Accounts -> HostStatuses]
  /\ wallet \in
       [Accounts -> [Credits -> {"ungranted", "available", "gone"} \cup Keys]]
  /\ window \in [Accounts -> 0..MaxWindow]
  /\ wire \subseteq Requests
  /\ outcome \in [Keys -> {"unused", "open", "success", "failed"}]
  /\ owed \in [Accounts -> BOOLEAN]

-----------------------------------------------------------------------------
(* For any number of engines, and with late requests.                      *)

Holds(a, k) == disk[a].pending # None /\ disk[a].pending.key = k

\* The open keys are those of the attempts in the file, one account each.
OpenIsHeld ==
  /\ \A k \in Keys : outcome[k] = "open" <=> \E a \in Accounts : Holds(a, k)
  /\ \A k \in Keys : \A a, b \in Accounts : Holds(a, k) /\ Holds(b, k) => a = b

\* Write-ahead: no request is on the wire, and nothing was redeemed, under a
\* key that was not first written to the state file by persistAttempt; and an
\* attempt that has no outcome yet is still in the file, under one account.
WriteAhead ==
  /\ \A m \in wire : outcome[m.key] # "unused"
  /\ \A a \in Accounts, c \in Credits :
       wallet[a][c] \in Keys => outcome[wallet[a][c]] # "unused"
  /\ OpenIsHeld

\* An account that cools down after a success has no attempt in progress
\* (completeSuccessfulReset clears it, persistAttempt refuses a new one), even
\* when another engine completed a reset since this one took its snapshot.
PendingExcludesCooldown ==
  \A a \in Accounts : disk[a].cooling => disk[a].pending = None

\* A key redeems at most one credit, whatever is retried, resent or late: the
\* retry sends the credit and the key of the attempt on file.
OneCreditPerKey ==
  \A a, b \in Accounts : \A c, d \in Credits :
    wallet[a][c] \in Keys /\ wallet[a][c] = wallet[b][d] => a = b /\ c = d

\* Attempt q is attempt p, looked at later.
Continues(p, q) ==
  q.key = p.key /\ q.credit = p.credit /\ q.fp = p.fp /\ q.count >= p.count

\* While an attempt is open its key, credit and fingerprint never change and
\* its verification count never falls; it is never replaced by another one.
AttemptStable ==
  [][\A a \in Accounts :
       disk[a].pending # None /\ disk'[a].pending # None
         => Continues(disk[a].pending, disk'[a].pending)]_vars

-----------------------------------------------------------------------------
(* The inductive invariant behind the properties for any number of         *)
(* engines.                                                                *)

\* An engine carries an attempt: read from the file, or written by itself.
Carries(e) ==
  \/ pc[e] \in {"consume", "await", "settle", "vcredits", "vusage", "complete"}
  \/ pc[e] = "usage" /\ job[e].plan = "resolve"

\* Key k stands for credit c of account a: in the file, in a scan's hands, in a
\* request on the wire, in the service's books.
FileUses(k, a, c) ==
  /\ disk[a].pending # None
  /\ disk[a].pending.key = k /\ disk[a].pending.credit = c

ScanUses(k, a, c) ==
  \E e \in Engines : /\ Carries(e) /\ job[e].acct = a
                     /\ job[e].attempt.key = k /\ job[e].attempt.credit = c

WireUses(k, a, c) == \E m \in wire : m.key = k /\ m.acct = a /\ m.credit = c

Uses(k, a, c) ==
  \/ FileUses(k, a, c)
  \/ ScanUses(k, a, c)
  \/ WireUses(k, a, c)
  \/ wallet[a][c] = k

\* A key stands for one credit of one account for ever, and for none before
\* persistAttempt wrote it to the file.
KeysTraced ==
  \A k \in Keys, a \in Accounts, c \in Credits : Uses(k, a, c) =>
    /\ outcome[k] # "unused"
    /\ \A b \in Accounts, d \in Credits : Uses(k, b, d) => a = b /\ c = d

\* A scan about to write a new attempt knows of every cooldown that runs: from
\* its snapshot, or because it is compared with the snapshot's clock.
ColdKnown ==
  \A e \in Engines :
    /\ pc[e] \in {"credits", "recheck", "persist"} => job[e].plan = "fresh"
    /\ /\ pc[e] \in {"usage", "credits", "recheck", "persist"}
       /\ job[e].plan = "fresh"
       /\ disk[job[e].acct].cooling
       => job[e].cold

IInv ==
  TypeOK /\ KeysTraced /\ OpenIsHeld /\ PendingExcludesCooldown /\ ColdKnown

-----------------------------------------------------------------------------
(* For one engine, when a request given up on reaches the service before   *)
(* the engine looks again or not at all.                                   *)

\* Every request on the wire is that of the account's open attempt: no attempt
\* is closed, by an answer, by a verification or by exhaustion, while a request
\* of it is under way.
WireMatchesAttempt ==
  \A m \in wire : Holds(m.acct, m.key)
                  /\ m.credit = disk[m.acct].pending.credit

\* No redemption is forgotten: what the service redeemed is an open attempt or
\* a recorded success, across lost answers, crashes and failed writes.
NoForgottenRedemption ==
  \A a \in Accounts, c \in Credits :
    wallet[a][c] \in Keys => outcome[wallet[a][c]] \in {"open", "success"}

\* A recorded success whose local cooldown was not cleared is still in the file
\* as a PendingLocalClear, whatever crash or failed write comes in between.
LocalClearOwed ==
  \A a \in Accounts : owed[a] => disk[a].clear # "none"

\* No attempt is open while the previous success still waits to be cleared.
ClearExcludesPending ==
  \A a \in Accounts : disk[a].clear # "none" => disk[a].pending = None

\* A credit the service declared missing (no_credit) is never asked for again.
TombstoneRespected ==
  \A m \in wire : m.credit \notin disk[m.acct].tomb

\* A request is sent only for an account the last recorded discovery found.
OnlyPresentConsumes ==
  \A m \in wire : disk[m.acct].present = "present"

\* What is about to be sent, for the first time or again, is what the file says,
\* although it was read or written up to three network calls earlier: the open
\* attempt of an account that was found, which neither cools down nor has a clear
\* to make, for a credit without a tombstone. It holds at the moment of sending,
\* and so when requests given up on arrive late as well.
SendsOnFile ==
  \A e \in Engines : pc[e] = "consume" =>
    LET j == job[e]
        account == disk[j.acct] IN
    /\ Holds(j.acct, j.attempt.key)
    /\ account.pending.credit = j.attempt.credit
    /\ j.attempt.credit \notin account.tomb
    /\ account.present = "present"
    /\ ~account.cooling /\ account.clear = "none" /\ ~mgmtCooling

\* After an authentication failure of the management API no call is made to it
\* for any account until the global cooldown has elapsed.
NoCallWhileMgmtCooling ==
  [][(\E e \in Engines : pc[e] = "clear" /\ pc'[e] = "cleared")
        => ~mgmtCooling]_vars

\* The engine implements the ledger: open before redeemed before closed, and
\* never written off when redeemed.
Ledger == INSTANCE AttemptLedger WITH
  current <- [a \in Accounts |-> IF disk[a].pending = None THEN None
                                 ELSE disk[a].pending.key],
  fate <- outcome,
  redeemed <- {k \in Keys : \E a \in Accounts, c \in Credits :
                              wallet[a][c] = k}

LedgerSpec == Ledger!Spec

\* However many engines there are, and however late a request arrives, they
\* implement the ledger of keys: a key stands for one attempt whose verdict is
\* final, and redeems once, after it was opened, the credit it was opened for.
Books == INSTANCE KeyLedger WITH
  open <- {r \in [key : Keys, acct : Accounts, credit : Credits] :
             FileUses(r.key, r.acct, r.credit)},
  fate <- outcome,
  redeemed <- {r \in [key : Keys, acct : Accounts, credit : Credits] :
                 wallet[r.acct][r.credit] = r.key}

KeyLedgerSpec == Books!Spec

\* An engine that is alone on its state directory lives by the rule that the
\* plugin runtime keeps among its engines (PluginRuntimeProps): it scans only
\* while it is active, and is activated again only when its scan has ended.
Lease == INSTANCE EngineLease WITH
  Scanners <- Engines,
  active <- {e \in Engines : life[e] = "running"},
  scanning <- {r \in Engines \X Engines : r[1] = r[2] /\ pc[r[1]] # "idle"}

LeaseSpec == Lease!Spec

-----------------------------------------------------------------------------
(* Liveness.                                                               *)

\* Goroutines run and requests time out (WF of a scan's steps), the ticker
\* starts scans, clocks advance; and a call that is tried again and again is
\* not answered with a failure every time, nor does every write fail (SF).
Fairness ==
  /\ \A e \in Engines :
       /\ WF_vars(Discover(e))
       /\ WF_vars(ScanStep(e))
       /\ SF_vars(Reconcile(e) /\ pc'[e] = "next")
       /\ SF_vars(LoadAccount(e) /\ pc'[e] = "usage")
       /\ SF_vars(VerifyCredits(e) /\ pc'[e] = "vusage")
       /\ SF_vars(VerifyUsage(e) /\ job'[e].acct # None)
       /\ SF_vars(MarkAmbiguous(e) /\ disk' # disk)
       /\ SF_vars(ApplyFailure(e) /\ disk' # disk)
       /\ SF_vars(Complete(e))
       /\ SF_vars(ResetQuota(e) /\ job'[e].code = "ok")
       /\ SF_vars(RecordClear(e) /\ disk'[job[e].acct].clear = "none")
  /\ \A a \in Accounts :
       WF_vars(CooldownElapses(a)) /\ WF_vars(BackoffElapses(a))
       /\ WF_vars(ClearFallsDue(a))
  /\ WF_vars(MgmtCooldownElapses)

LiveSpec == Spec /\ Fairness

\* Nobody stops the engines, opts the account out or disables it any more.
Calm(a) ==
  /\ \A e \in Engines : life[e] = "running"
  /\ disk[a].participating
  /\ host[a] = "enabled"

\* A scan always comes to its end and releases the scan lock.
ScanEnds == \A e \in Engines : []<>(pc[e] = "idle")

\* No attempt stays open for ever: it is verified, retried or given up.
AttemptCloses ==
  \A a \in Accounts : <>[]Calm(a) => []<>(disk[a].pending = None)

\* No success waits for ever to be cleared locally, which would keep the
\* account from ever being reset again.
ClearCompletes ==
  \A a \in Accounts : <>[]Calm(a) => []<>(disk[a].clear = "none")

-----------------------------------------------------------------------------
(* What the documentation and the tests say, and the code does not do.     *)

\* README.md, line 74: a scan bypasses neither the participation setting nor the
\* threshold. A retry of an attempt bypasses both at once: it sends the request
\* although the state file says by now that the account was opted out, and
\* although the usage it has just read is zero.
RetryStillWanted ==
  [][\A e \in Engines :
       pc[e] = "vusage" /\ pc'[e] = "consume"
         => disk[job[e].acct].participating \/ job'[e].usage # "zero"]_vars
==============================================================================
