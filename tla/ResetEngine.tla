----------------------------- MODULE ResetEngine -----------------------------
(***************************************************************************)
(* The reset engine of the plugin (internal/reset/engine.go): the scan     *)
(* that, account by account, decides whether a reset credit is worth       *)
(* consuming, writes the attempt to the state file BEFORE it sends the     *)
(* request, sends it, and settles the answer, with every network call and  *)
(* every write of the state file a step of its own.                        *)
(*                                                                         *)
(* Time is abstracted to the comparisons the code makes with it: a         *)
(* cooldown, a backoff or a retry time is running or it has elapsed, and   *)
(* it may elapse at any moment.                                            *)
(***************************************************************************)
EXTENDS Naturals, FiniteSets

CONSTANTS
  Accounts,              \* account references
  Credits,               \* reset credits of an account, in order of expiry
  Keys,                  \* idempotency keys; their number bounds the attempts
  Engines,               \* engines that share one state directory
  MaxVerify,             \* MaximumVerificationTries
  MaxWindow,             \* bound on how often a usage window rolls over
  LateRequests,          \* may a request given up on still reach the service
  DefaultParticipation,  \* configuration: do new accounts participate
  HostStatuses,          \* what the host's credential files may be
  None                   \* Go's nil

ASSUME CreditsAssumption == Credits \subseteq Nat /\ IsFiniteSet(Credits)
ASSUME BoundsAssumption == MaxVerify \in Nat /\ MaxWindow \in Nat
ASSUME FlagsAssumption ==
  LateRequests \in BOOLEAN /\ DefaultParticipation \in BOOLEAN
ASSUME HostAssumption ==
  "enabled" \in HostStatuses
  /\ HostStatuses \subseteq {"enabled", "disabled", "missing"}
ASSUME KeysAssumption == Keys \cap {"ungranted", "available", "gone"} = {}

VARIABLES
  disk,         \* disk[a]: what the state file says of account a
  mgmtCooling,  \* the state file's ManagementCooldown is running
  life,         \* life[e]: is engine e active, stopping, its context cancelled
  pc,           \* pc[e]: where engine e's scan stands
  job,          \* job[e]: the local variables of that scan
  host,         \* host[a]: the credential files of the host
  wallet,       \* wallet[a][c]: the service's view of a credit
  window,       \* window[a]: epoch of the account's usage windows
  wire,         \* consume requests on their way to the service
  outcome,      \* history: what became of the attempt with each key
  owed          \* history: a recorded success was not yet cleared locally

engineVars == <<life, pc, job>>
serverVars == <<wallet, window, wire>>
vars == <<disk, mgmtCooling, engineVars, host, serverVars, outcome, owed>>

-----------------------------------------------------------------------------
(* What the state file and the service may hold.                           *)

Fingerprints ==
  [credit : Credits, window : 0..MaxWindow, count : 0..Cardinality(Credits)]

Attempts == [key : Keys, credit : Credits, fp : Fingerprints,
             count : 0..MaxVerify]

Backoffs == [active : BOOLEAN, fp : Fingerprints \cup {None}]

\* nil is no value of its own kind.
ASSUME NoneAssumption ==
  /\ None \notin Accounts \cup Credits \cup Keys
  /\ None \notin Fingerprints /\ None \notin Attempts /\ None \notin Backoffs

\* The safety fields of an AccountState; "unknown" is an account the file does
\* not have yet. cooling says that PostResetCooldown is running, clear whether
\* a PendingLocalClear is there and its retry time has come.
AccountStates ==
  [present : {"unknown", "present", "absent"}, participating : BOOLEAN,
   pending : Attempts \cup {None}, tomb : SUBSET Credits, cooling : BOOLEAN,
   backoff : Backoffs \cup {None}, clear : {"none", "due", "waiting"},
   lastFp : Fingerprints \cup {None}]

NewAccount ==
  [present |-> "unknown", participating |-> DefaultParticipation,
   pending |-> None, tomb |-> {}, cooling |-> FALSE, backoff |-> None,
   clear |-> "none", lastFp |-> None]

Levels == {"zero", "low", "high", "blocked"}  \* used%: 0, below threshold, ...
Ages == {"far", "candidate", "protected"}     \* > 6 h, <= 6 h, <= 30 min
Codes == {"reset", "already_redeemed", "nothing_to_reset", "no_credit"}

\* try tells the copies of a request apart: the count of its attempt.
Requests == [eng : Engines, acct : Accounts, credit : Credits, key : Keys,
             try : 0..MaxVerify]

Stages == {"idle", "reconcile", "next", "usage", "credits", "recheck",
           "persist", "consume", "await", "settle", "vcredits", "vusage",
           "complete", "clear", "cleared"}

Jobs ==
  [acct : Accounts \cup {None}, todo : SUBSET Accounts, off : SUBSET Accounts,
   plan : {"skip", "clear", "wait", "resolve", "fresh"},
   tomb : SUBSET Credits, avoid : Fingerprints \cup {None}, cold : BOOLEAN,
   usage : Levels \cup {"failed"}, window : 0..MaxWindow,
   credit : Credits \cup {None}, fp : Fingerprints \cup {None},
   attempt : Attempts \cup {None},
   code : Codes \cup {"none", "error", "exhausted", "listed", "gone", "ok",
                      "auth"}]

NoJob == [acct |-> None, todo |-> {}, off |-> {}, plan |-> "skip", tomb |-> {},
          avoid |-> None, cold |-> FALSE, usage |-> "failed", window |-> 0,
          credit |-> None, fp |-> None, attempt |-> None, code |-> "none"]

Init ==
  /\ disk = [a \in Accounts |-> NewAccount]
  /\ mgmtCooling = FALSE
  /\ life = [e \in Engines |-> "running"]
  /\ pc = [e \in Engines |-> "idle"]
  /\ job = [e \in Engines |-> NoJob]
  /\ host = [a \in Accounts |-> "enabled"]
  /\ wallet = [a \in Accounts |-> [c \in Credits |-> "ungranted"]]
  /\ window = [a \in Accounts |-> 0]
  /\ wire = {}
  /\ outcome = [k \in Keys |-> "unused"]
  /\ owed = [a \in Accounts |-> FALSE]

-----------------------------------------------------------------------------
(* Helpers.                                                                *)

Available(a) == {c \in Credits : wallet[a][c] = "available"}

\* A variant of FirstUsable that does not look at the tombstones.
FirstListed(listed, tomb) ==
  IF listed = {} THEN None ELSE CHOOSE c \in listed : \A d \in listed : c <= d

\* firstUsableCredit: the available credit that expires first and has no
\* tombstone in the snapshot; None when there is none.
FirstUsable(listed, tomb) ==
  IF listed \subseteq tomb THEN None
  ELSE CHOOSE c \in listed \ tomb : \A d \in listed \ tomb : c <= d

\* fingerprint: the credit, the windows of the usage reply, the credit count.
Fingerprint(a, c, w) ==
  [credit |-> c, window |-> w, count |-> Cardinality(Available(a))]

\* Variants of Plan: a local clear does not bar a new attempt; the global
\* cooldown does not bar a local clear; a local clear is never tried again.
PlanIgnoresClear(s, disabled) ==
  IF ~s.participating \/ disabled \/ mgmtCooling THEN "skip"
  ELSE IF s.cooling THEN "skip"
  ELSE IF s.backoff # None /\ s.backoff.active THEN "skip"
  ELSE IF s.pending # None THEN "resolve"
  ELSE "fresh"

PlanIgnoresMgmt(s, disabled) ==
  IF ~s.participating \/ disabled THEN "skip"
  ELSE IF s.clear = "due" THEN "clear"
  ELSE IF s.clear = "waiting" THEN "wait"
  ELSE PlanIgnoresClear(s, FALSE)

PlanNeverClears(s, disabled) ==
  IF s.clear # "none" THEN "skip" ELSE PlanIgnoresClear(s, disabled)

\* What processAccount will do, fixed by the snapshot and the time it takes
\* before its first network call: the order of the tests is the code's.
Plan(s, disabled) ==
  IF ~s.participating \/ disabled \/ mgmtCooling THEN "skip"
  ELSE IF s.clear = "due" THEN "clear"
  ELSE IF s.clear = "waiting" THEN "wait"
  ELSE IF s.cooling THEN "skip"
  ELSE IF s.backoff # None /\ s.backoff.active THEN "skip"
  ELSE IF s.pending # None THEN "resolve"
  ELSE "fresh"

\* The threshold test: blocked always, else the threshold, or any use at all
\* in the last minutes of the credit.
WorthIt(usage, age) ==
  \/ usage \in {"high", "blocked"}
  \/ age = "protected" /\ usage = "low"

RunningBackoff(fp) == [active |-> TRUE, fp |-> fp]

Cancelled(e) == life[e] = "cancelled"

Goto(e, stage) == pc' = [pc EXCEPT ![e] = stage]

SetJob(e, j) == job' = [job EXCEPT ![e] = j]

\* The local variables once processAccount has returned.
Left(e) == [NoJob EXCEPT !.todo = job[e].todo, !.off = job[e].off]

\* The local variables that matter while an attempt is under way.
Attempting(e, attempt) ==
  [Left(e) EXCEPT !.acct = job[e].acct, !.attempt = attempt]

\* processAccount returns to the loop of Scan.
Leave(e) == Goto(e, "next") /\ SetJob(e, Left(e))

\* Store.Update whose error is ignored: the new account state, or nothing.
Update(a, s) == disk' \in {disk, [disk EXCEPT ![a] = s]}

-----------------------------------------------------------------------------
(* Scan.                                                                   *)

\* Scan starts, logs and discovers the accounts. When the log cannot be
\* written or the discovery fails the scan ends where it began.
Discover(e) ==
  /\ pc[e] = "idle" /\ life[e] = "running"
  /\ Goto(e, "reconcile")
  /\ SetJob(e, [NoJob EXCEPT
                  !.todo = {a \in Accounts : host[a] # "missing"},
                  !.off = {a \in Accounts : host[a] = "disabled"}])
  /\ UNCHANGED <<disk, mgmtCooling, life, host, serverVars, outcome, owed>>

\* state.ReconcileAccounts: only what discovery returned stays present.
Reconciled(seen) ==
  [a \in Accounts |->
     IF a \in seen THEN [disk[a] EXCEPT !.present = "present"]
     ELSE IF disk[a].present = "unknown" THEN disk[a]
     ELSE [disk[a] EXCEPT !.present = "absent"]]

\* A variant of Reconcile that goes on when the write failed.
ReconcileUnchecked(e) ==
  /\ pc[e] = "reconcile"
  /\ disk' \in {disk, Reconciled(job[e].todo)}
  /\ Goto(e, "next") /\ UNCHANGED job
  /\ UNCHANGED <<mgmtCooling, life, host, serverVars, outcome, owed>>

\* The scan goes on when the write succeeded; an error, be it before or after
\* the file was replaced, ends the scan.
Reconcile(e) ==
  /\ pc[e] = "reconcile"
  /\ \/ /\ disk' = Reconciled(job[e].todo)
        /\ Goto(e, "next") /\ UNCHANGED job
     \/ /\ disk' \in {disk, Reconciled(job[e].todo)}
        /\ Goto(e, "idle") /\ SetJob(e, NoJob)
  /\ UNCHANGED <<mgmtCooling, life, host, serverVars, outcome, owed>>

\* processAccount begins: the snapshot everything below decides on.
LoadAccount(e) ==
  /\ pc[e] = "next" /\ life[e] = "running"
  /\ \E a \in job[e].todo :
       LET rest == [job[e] EXCEPT !.todo = @ \ {a}]
           s == disk[a]
           plan == Plan(s, a \in job[e].off)
       IN \/ /\ s.present # "unknown"
             /\ Goto(e, "usage")
             /\ SetJob(e, [rest EXCEPT
                  !.acct = a,
                  !.plan = plan,
                  !.tomb = s.tomb,
                  !.avoid = IF s.backoff = None THEN None ELSE s.backoff.fp,
                  !.cold = s.cooling,
                  !.attempt = IF plan = "resolve" THEN s.pending ELSE None])
          \/ SetJob(e, rest) /\ UNCHANGED pc  \* the state file is unreadable
  /\ UNCHANGED <<disk, mgmtCooling, life, host, serverVars, outcome, owed>>

FinishScan(e) ==
  /\ pc[e] = "next"
  /\ job[e].todo = {} \/ life[e] # "running"
  /\ Goto(e, "idle") /\ SetJob(e, NoJob)
  /\ UNCHANGED <<disk, mgmtCooling, life, host, serverVars, outcome, owed>>

-----------------------------------------------------------------------------
(* A new attempt: processAccount.                                          *)

\* The usage query every account gets, then the early returns of the plan.
\* The retry time of a local clear is compared with a later clock, so that a
\* clear still waiting in the snapshot may have fallen due.
UsageReply(e) ==
  /\ pc[e] = "usage"
  /\ \E level \in Levels \cup {"failed"} :
       /\ Cancelled(e) => level = "failed"
       /\ CASE job[e].plan = "skip" -> Leave(e)
            [] job[e].plan \in {"clear", "wait"} ->
                 \/ Goto(e, "clear") /\ SetJob(e, Attempting(e, None))
                 \/ job[e].plan = "wait" /\ Leave(e)
            [] job[e].plan = "resolve" ->
                 /\ Goto(e, "vcredits")
                 /\ SetJob(e, Attempting(e, job[e].attempt))
            [] job[e].plan = "fresh" ->
                 /\ Goto(e, "credits")
                 /\ SetJob(e, [job[e] EXCEPT !.usage = level,
                                  !.window = window[job[e].acct]])
  /\ UNCHANGED <<disk, mgmtCooling, life, host, serverVars, outcome, owed>>

\* recordTransientFailure with the empty fingerprint, and return.
TransientFailure(e) ==
  /\ Update(job[e].acct,
            [disk[job[e].acct] EXCEPT !.backoff = RunningBackoff(None)])
  /\ Leave(e)

\* A variant of Decision that goes on without a credit.
DecisionUnchecked(c, usage, age) ==
  IF usage \in {"low", "high", "blocked"} THEN "recheck" ELSE "return"

\* The early returns after the first credit query, in the code's order: is there
\* a credit, is it due, was the usage read, is a reset worth it.
Decision(c, usage, age) ==
  IF c = None THEN "return"
  ELSE IF usage # "blocked" /\ age = "far" THEN "return"
  ELSE IF usage = "failed" THEN "transient"
  ELSE IF WorthIt(usage, age) THEN "recheck"
  ELSE "return"

CreditsReply(e) ==
  /\ pc[e] = "credits"
  /\ LET c == FirstUsable(Available(job[e].acct), job[e].tomb) IN
     \/ TransientFailure(e)
     \/ /\ ~Cancelled(e)
        /\ \E age \in Ages :
             LET decision == Decision(c, job[e].usage, age) IN
             \/ decision = "return" /\ Leave(e) /\ UNCHANGED disk
             \/ decision = "transient" /\ TransientFailure(e)
             \/ /\ decision = "recheck"
                /\ Goto(e, "recheck")
                /\ SetJob(e, [job[e] EXCEPT !.credit = c])
                /\ UNCHANGED disk
  /\ UNCHANGED <<mgmtCooling, life, host, serverVars, outcome, owed>>

\* The second credit query must still name the same credit, and the
\* fingerprint must differ from that of the last failure.
RecheckReply(e) ==
  /\ pc[e] = "recheck"
  /\ LET j == job[e]
         fp == Fingerprint(j.acct, j.credit, j.window)
     IN \/ TransientFailure(e)
        \/ /\ ~Cancelled(e)
           /\ UNCHANGED disk
           /\ IF /\ FirstUsable(Available(j.acct), j.tomb) = j.credit
                 /\ j.avoid # fp
                 /\ life[e] = "running"
              THEN Goto(e, "persist") /\ SetJob(e, [j EXCEPT !.fp = fp])
              ELSE Leave(e)
  /\ UNCHANGED <<mgmtCooling, life, host, serverVars, outcome, owed>>

\* Variants of MayPersist: the cooldown, or the open attempt, is not looked at
\* again under the lock.
MayPersistCooling(e) ==
  /\ life[e] = "running"
  /\ disk[job[e].acct].present # "unknown" /\ disk[job[e].acct].participating
  /\ disk[job[e].acct].pending = None

MayPersistTwice(e) ==
  /\ life[e] = "running"
  /\ disk[job[e].acct].present # "unknown" /\ disk[job[e].acct].participating
  /\ ~job[e].cold

\* The conditions persistAttempt checks under the file lock. Its clock is the
\* one of the snapshot, so a cooldown bars it when it ran then or was written
\* since, whether or not it has elapsed in the meantime.
MayPersist(e) ==
  LET s == disk[job[e].acct] IN
  /\ life[e] = "running"
  /\ s.present # "unknown" /\ s.participating
  /\ s.pending = None
  /\ ~job[e].cold

\* newAttempt and persistAttempt: a fresh key, written before it is used. The
\* write may be reported as failed although the file was replaced.
PersistAttempt(e) ==
  /\ pc[e] = "persist"
  /\ MayPersist(e)
  /\ \E k \in Keys :
       LET attempt == [key |-> k, credit |-> job[e].credit, fp |-> job[e].fp,
                       count |-> 0]
       IN /\ outcome[k] = "unused"
          /\ disk' = [disk EXCEPT ![job[e].acct].pending = attempt]
          /\ outcome' = [outcome EXCEPT ![k] = "open"]
          /\ \/ /\ Goto(e, "consume")
                /\ SetJob(e, Attempting(e, attempt))
             \/ Leave(e)
  /\ UNCHANGED <<mgmtCooling, life, host, serverVars, owed>>

\* A variant of PersistRefused that sends the request all the same.
PersistIgnored(e) ==
  /\ pc[e] = "persist"
  /\ \E k \in Keys :
       /\ outcome[k] = "unused"
       /\ Goto(e, "consume")
       /\ SetJob(e, Attempting(e, [key |-> k, credit |-> job[e].credit,
                                   fp |-> job[e].fp, count |-> 0]))
  /\ UNCHANGED <<disk, mgmtCooling, life, host, serverVars, outcome, owed>>

\* A condition does not hold, the write failed or no key could be made.
PersistRefused(e) ==
  /\ pc[e] = "persist"
  /\ Leave(e)
  /\ UNCHANGED <<disk, mgmtCooling, life, host, serverVars, outcome, owed>>

-----------------------------------------------------------------------------
(* The consume request and its answer.                                     *)

SendConsume(e) ==
  /\ pc[e] = "consume" /\ ~Cancelled(e)
  /\ wire' = wire \cup {[eng |-> e, acct |-> job[e].acct,
                         credit |-> job[e].attempt.credit,
                         key |-> job[e].attempt.key,
                         try |-> job[e].attempt.count]}
  /\ Goto(e, "await")
  /\ UNCHANGED <<disk, mgmtCooling, life, job, host, wallet, window, outcome,
                 owed>>

\* The request could not be sent, or the context is cancelled already.
SendFails(e) ==
  /\ pc[e] = "consume"
  /\ Goto(e, "settle") /\ SetJob(e, [job[e] EXCEPT !.code = "error"])
  /\ UNCHANGED <<disk, mgmtCooling, life, host, serverVars, outcome, owed>>

\* A variant of GiveUp for a client without a timeout.
GiveUpNever(e) ==
  /\ pc[e] = "await" /\ Cancelled(e)
  /\ Goto(e, "settle") /\ SetJob(e, [job[e] EXCEPT !.code = "error"])
  /\ wire' = {m \in wire : m.eng # e}
  /\ UNCHANGED <<disk, mgmtCooling, life, host, wallet, window, outcome, owed>>

\* Timeout, cancellation, a broken connection, a status of 300 or more, a body
\* that does not parse: Consume returns an error and nobody knows what happened.
GiveUp(e) ==
  /\ pc[e] = "await"
  /\ Goto(e, "settle") /\ SetJob(e, [job[e] EXCEPT !.code = "error"])
  /\ wire' = IF LateRequests THEN wire ELSE {m \in wire : m.eng # e}
  /\ UNCHANGED <<disk, mgmtCooling, life, host, wallet, window, outcome, owed>>

\* What the service may answer: a credit redeemed before is reported as such,
\* an available one may be redeemed, anything not redeemed may be refused.
Answers(m) ==
  IF wallet[m.acct][m.credit] \in Keys THEN {"already_redeemed"}
  ELSE {"nothing_to_reset", "no_credit"} \cup
       IF wallet[m.acct][m.credit] = "available" THEN {"reset"} ELSE {}

\* The service executes a request; the answer reaches the engine that still
\* waits for it, or is lost.
Execute(m) ==
  /\ wire' = wire \ {m}
  /\ \E code \in Answers(m) :
       /\ wallet' = IF code = "reset"
                    THEN [wallet EXCEPT ![m.acct][m.credit] = m.key]
                    ELSE wallet
       /\ \/ UNCHANGED <<pc, job>>
          \/ /\ pc[m.eng] = "await" /\ job[m.eng].attempt.key = m.key
             /\ ~Cancelled(m.eng)
             /\ IF code \in {"reset", "already_redeemed"}
                THEN Goto(m.eng, "complete") /\ UNCHANGED job
                ELSE /\ Goto(m.eng, "settle")
                     /\ SetJob(m.eng, [job[m.eng] EXCEPT !.code = code])
  /\ UNCHANGED <<disk, mgmtCooling, life, host, window, outcome, owed>>

\* A variant of Ambiguous that does not count.
AmbiguousUncounted(s, attempt) ==
  IF s.pending # None /\ s.pending.key = attempt.key
  THEN [s EXCEPT !.backoff = RunningBackoff(attempt.fp)] ELSE s

\* markAmbiguous and bumpPendingVerification: only the attempt they are about.
\* The count saturates: the code compares it with MaxVerify and nothing else.
Ambiguous(s, attempt) ==
  IF s.pending # None /\ s.pending.key = attempt.key
  THEN [s EXCEPT !.pending.count = IF @ < MaxVerify THEN @ + 1 ELSE @,
                 !.backoff = RunningBackoff(attempt.fp)]
  ELSE s

\* applyFailure: whatever attempt the file holds is closed.
Failed(s, attempt, tombstone) ==
  [s EXCEPT !.pending = None, !.backoff = RunningBackoff(attempt.fp),
            !.lastFp = attempt.fp,
            !.tomb = IF tombstone THEN @ \cup {attempt.credit} ELSE @]

\* A variant of MarkAmbiguous that takes an error for a failure.
MarkFailed(e) ==
  /\ pc[e] = "settle" /\ job[e].code = "error"
  /\ disk' = [disk EXCEPT ![job[e].acct] = Failed(@, job[e].attempt, FALSE)]
  /\ outcome' = [outcome EXCEPT ![job[e].attempt.key] = "failed"]
  /\ Leave(e)
  /\ UNCHANGED <<mgmtCooling, life, host, serverVars, owed>>

MarkAmbiguous(e) ==
  /\ pc[e] = "settle" /\ job[e].code = "error"
  /\ LET a == job[e].acct IN Update(a, Ambiguous(disk[a], job[e].attempt))
  /\ Leave(e)
  /\ UNCHANGED <<mgmtCooling, life, host, serverVars, outcome, owed>>

ApplyFailure(e) ==
  /\ pc[e] = "settle" /\ job[e].code # "error"
  /\ LET a == job[e].acct
         open == disk[a].pending
     IN \/ /\ disk' = [disk EXCEPT ![a] =
                         Failed(@, job[e].attempt, job[e].code = "no_credit")]
           /\ outcome' = IF open = None THEN outcome
                         ELSE [outcome EXCEPT ![open.key] = "failed"]
        \/ UNCHANGED <<disk, outcome>>
  /\ Leave(e)
  /\ UNCHANGED <<mgmtCooling, life, host, serverVars, owed>>

-----------------------------------------------------------------------------
(* An attempt left open by an earlier scan: resolvePending.                *)

\* bumpPendingVerification, and return.
Bump(e) ==
  /\ LET a == job[e].acct IN Update(a, Ambiguous(disk[a], job[e].attempt))
  /\ Leave(e)

VerifyCredits(e) ==
  /\ pc[e] = "vcredits"
  /\ \/ Bump(e)
     \/ /\ ~Cancelled(e)
        /\ Goto(e, "vusage")
        /\ SetJob(e, [job[e] EXCEPT !.code =
             IF job[e].attempt.credit \in Available(job[e].acct)
             THEN "listed" ELSE "gone"])
        /\ UNCHANGED disk
  /\ UNCHANGED <<mgmtCooling, life, host, serverVars, outcome, owed>>

\* Two variants of RetryJob: a retry under another key, and a retry that asks
\* for the credit that is first in the list by now.
RetryWithNewKey(j, level) ==
  [j EXCEPT !.usage = level, !.code = "none",
            !.attempt.key = CHOOSE k \in Keys : k # @]

RetryWithFirstCredit(j, level) ==
  [j EXCEPT !.usage = level, !.code = "none",
            !.attempt.credit = IF Available(j.acct) = {} THEN @
                               ELSE FirstUsable(Available(j.acct), {})]

\* The same request again: same credit, same key; the usage just read is not
\* looked at.
RetryJob(j, level) == [j EXCEPT !.usage = level, !.code = "none"]

\* The usage is queried and only its success matters: a credit that left the
\* list counts as consumed, too many tries close the attempt, else the same
\* request is sent again.
VerifyUsage(e) ==
  /\ pc[e] = "vusage"
  /\ LET j == job[e] IN
     \/ Bump(e)
     \/ /\ ~Cancelled(e)
        /\ UNCHANGED disk
        /\ \/ j.code = "gone" /\ Goto(e, "complete") /\ UNCHANGED job
           \/ /\ j.code = "listed" /\ j.attempt.count >= MaxVerify
              /\ Goto(e, "settle")
              /\ SetJob(e, [j EXCEPT !.code = "exhausted"])
           \/ /\ j.code = "listed" /\ j.attempt.count < MaxVerify
              /\ IF life[e] = "running"
                 THEN \E level \in Levels :
                        /\ Goto(e, "consume")
                        /\ SetJob(e, RetryJob(j, level))
                 ELSE Leave(e)
  /\ UNCHANGED <<mgmtCooling, life, host, serverVars, outcome, owed>>

-----------------------------------------------------------------------------
(* Success: completeSuccessfulReset and retryLocalClear.                   *)

\* A variant of Succeeded that leaves the attempt in the file.
SucceededKeepsAttempt(s, attempt) ==
  [s EXCEPT !.cooling = TRUE, !.backoff = None, !.lastFp = attempt.fp,
            !.clear = "due"]

\* The account state of a completed reset.
Succeeded(s, attempt) ==
  [s EXCEPT !.pending = None, !.cooling = TRUE, !.backoff = None,
            !.lastFp = attempt.fp, !.clear = "due"]

\* A variant of Complete that does not ask which attempt the file holds.
CompleteUnchecked(e) ==
  /\ pc[e] = "complete"
  /\ disk' = [disk EXCEPT ![job[e].acct] = Succeeded(@, job[e].attempt)]
  /\ outcome' = [outcome EXCEPT ![job[e].attempt.key] = "success"]
  /\ owed' = [owed EXCEPT ![job[e].acct] = TRUE]
  /\ Goto(e, "clear") /\ UNCHANGED job
  /\ UNCHANGED <<mgmtCooling, life, host, serverVars>>

\* The success is recorded if the file still holds this attempt. An error
\* reported after the file was replaced skips the local clear.
Complete(e) ==
  /\ pc[e] = "complete"
  /\ LET a == job[e].acct
         attempt == job[e].attempt
     IN /\ disk[a].pending # None /\ disk[a].pending.key = attempt.key
        /\ disk' = [disk EXCEPT ![a] = Succeeded(@, attempt)]
        /\ outcome' = [outcome EXCEPT ![attempt.key] = "success"]
        /\ owed' = [owed EXCEPT ![a] = TRUE]
        /\ \E stage \in {"clear", "next"} :
             /\ Goto(e, stage)
             /\ job' = [x \in Engines |->
                  IF x = e THEN IF stage = "clear" THEN job[e] ELSE Left(e)
                  ELSE IF job[x].acct = a /\ job[x].plan = "fresh"
                       THEN [job[x] EXCEPT !.cold = TRUE]
                  ELSE job[x]]
  /\ UNCHANGED <<mgmtCooling, life, host, serverVars>>

\* The file holds another attempt or none, or it could not be written.
CompleteFails(e) ==
  /\ pc[e] = "complete"
  /\ Leave(e)
  /\ UNCHANGED <<disk, mgmtCooling, life, host, serverVars, outcome, owed>>

\* The call to the host's management API.
ResetQuota(e) ==
  /\ pc[e] = "clear"
  /\ \E code \in {"ok", "error", "auth"} :
       /\ Cancelled(e) => code = "error"
       /\ Goto(e, "cleared") /\ SetJob(e, [job[e] EXCEPT !.code = code])
       /\ owed' = IF code = "ok" THEN [owed EXCEPT ![job[e].acct] = FALSE]
                  ELSE owed
  /\ UNCHANGED <<disk, mgmtCooling, life, host, serverVars, outcome>>

\* A variant of RecordClear that drops the clear when the call failed.
RecordClearAlways(e) ==
  /\ pc[e] = "cleared"
  /\ disk' = [disk EXCEPT ![job[e].acct].clear = "none"]
  /\ mgmtCooling' = (mgmtCooling \/ job[e].code = "auth")
  /\ Leave(e)
  /\ UNCHANGED <<life, host, serverVars, outcome, owed>>

\* Its outcome is written: the clear is done, or due again later.
RecordClear(e) ==
  /\ pc[e] = "cleared"
  /\ LET a == job[e].acct IN
     \/ /\ disk' = [disk EXCEPT ![a].clear =
                      IF job[e].code = "ok" THEN "none" ELSE "waiting"]
        /\ mgmtCooling' = (mgmtCooling \/ job[e].code = "auth")
     \/ UNCHANGED <<disk, mgmtCooling>>
  /\ Leave(e)
  /\ UNCHANGED <<life, host, serverVars, outcome, owed>>

-----------------------------------------------------------------------------
(* The engine's life: Stop, and the process around it.                     *)

\* Stop: active.Swap(false) ...
RequestStop(e) ==
  /\ life[e] = "running"
  /\ life' = [life EXCEPT ![e] = "stopping"]
  /\ UNCHANGED <<disk, mgmtCooling, pc, job, host, serverVars, outcome, owed>>

\* ... then the lifecycle context is cancelled.
Cancel(e) ==
  /\ life[e] = "stopping"
  /\ life' = [life EXCEPT ![e] = "cancelled"]
  /\ UNCHANGED <<disk, mgmtCooling, pc, job, host, serverVars, outcome, owed>>

\* The process dies: only the state file is left.
Crash(e) ==
  /\ life[e] # "down"
  /\ life' = [life EXCEPT ![e] = "down"]
  /\ Goto(e, "idle") /\ SetJob(e, NoJob)
  /\ wire' = IF LateRequests THEN wire ELSE {m \in wire : m.eng # e}
  /\ UNCHANGED <<disk, mgmtCooling, host, wallet, window, outcome, owed>>

\* A new engine, once Stop has seen the scan end or the process is back.
Restart(e) ==
  /\ life[e] \in {"cancelled", "down"} /\ pc[e] = "idle"
  /\ life' = [life EXCEPT ![e] = "running"]
  /\ UNCHANGED <<disk, mgmtCooling, pc, job, host, serverVars, outcome, owed>>

-----------------------------------------------------------------------------
(* The clock, the user, the host and the service.                          *)

CooldownElapses(a) ==
  /\ disk[a].cooling
  /\ disk' = [disk EXCEPT ![a].cooling = FALSE]
  /\ UNCHANGED <<mgmtCooling, engineVars, host, serverVars, outcome, owed>>

BackoffElapses(a) ==
  /\ disk[a].backoff # None /\ disk[a].backoff.active
  /\ disk' = [disk EXCEPT ![a].backoff.active = FALSE]
  /\ UNCHANGED <<mgmtCooling, engineVars, host, serverVars, outcome, owed>>

ClearFallsDue(a) ==
  /\ disk[a].clear = "waiting"
  /\ disk' = [disk EXCEPT ![a].clear = "due"]
  /\ UNCHANGED <<mgmtCooling, engineVars, host, serverVars, outcome, owed>>

MgmtCooldownElapses ==
  /\ mgmtCooling
  /\ mgmtCooling' = FALSE
  /\ UNCHANGED <<disk, engineVars, host, serverVars, outcome, owed>>

\* state.SetParticipation: only accounts the last discovery returned.
SetParticipation(a, participating) ==
  /\ disk[a].present = "present"
  /\ disk' = [disk EXCEPT ![a].participating = participating]
  /\ UNCHANGED <<mgmtCooling, engineVars, host, serverVars, outcome, owed>>

HostChanges(a) ==
  /\ \E status \in HostStatuses \ {host[a]} :
       host' = [host EXCEPT ![a] = status]
  /\ UNCHANGED <<disk, mgmtCooling, engineVars, serverVars, outcome, owed>>

CreditGranted(a, c) ==
  /\ wallet[a][c] = "ungranted"
  /\ wallet' = [wallet EXCEPT ![a][c] = "available"]
  /\ UNCHANGED <<disk, mgmtCooling, engineVars, host, window, wire, outcome,
                 owed>>

\* It expires, or its owner uses it elsewhere.
CreditLeaves(a, c) ==
  /\ wallet[a][c] = "available"
  /\ wallet' = [wallet EXCEPT ![a][c] = "gone"]
  /\ UNCHANGED <<disk, mgmtCooling, engineVars, host, window, wire, outcome,
                 owed>>

WindowRolls(a) ==
  /\ window[a] < MaxWindow
  /\ window' = [window EXCEPT ![a] = @ + 1]
  /\ UNCHANGED <<disk, mgmtCooling, engineVars, host, wallet, wire, outcome,
                 owed>>

-----------------------------------------------------------------------------
ScanStep(e) ==
  \/ Reconcile(e) \/ LoadAccount(e) \/ FinishScan(e)
  \/ UsageReply(e) \/ CreditsReply(e) \/ RecheckReply(e)
  \/ PersistAttempt(e) \/ PersistRefused(e)
  \/ SendConsume(e) \/ SendFails(e) \/ GiveUp(e)
  \/ MarkAmbiguous(e) \/ ApplyFailure(e)
  \/ VerifyCredits(e) \/ VerifyUsage(e)
  \/ Complete(e) \/ CompleteFails(e) \/ ResetQuota(e) \/ RecordClear(e)

LifeStep(e) == RequestStop(e) \/ Cancel(e) \/ Crash(e) \/ Restart(e)

ClockStep ==
  \/ MgmtCooldownElapses
  \/ \E a \in Accounts :
       CooldownElapses(a) \/ BackoffElapses(a) \/ ClearFallsDue(a)

WorldStep ==
  \/ \E m \in wire : Execute(m)
  \/ \E a \in Accounts :
       \/ \E p \in BOOLEAN : SetParticipation(a, p)
       \/ HostChanges(a)
       \/ \E c \in Credits : CreditGranted(a, c) \/ CreditLeaves(a, c)
       \/ WindowRolls(a)

Next ==
  \/ \E e \in Engines : Discover(e) \/ ScanStep(e) \/ LifeStep(e)
  \/ ClockStep
  \/ WorldStep

Spec == Init /\ [][Next]_vars
=============================================================================
