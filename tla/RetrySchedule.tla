---------------------------- MODULE RetrySchedule ----------------------------
(***************************************************************************)
(* When the engine tries again, for one account that takes part: the waits *)
(* of internal/reset/engine.go in minutes, with the width of Go's          *)
(* time.Duration, the configuration they are taken from and the replies    *)
(* that decide between waiting and going on. What is written when, what    *)
(* crashes do to it and what several engines do is ResetEngine.            *)
(***************************************************************************)
EXTENDS Configuration, CodexReplies

CONSTANTS
  Documents,  \* the configurations the plugin may be given
  Env,        \* the environment Parse looks into
  MaxRows,    \* bounds the length of a credit list
  MaxLevel,   \* bounds the counts of failures, which the code does not
  None

ASSUME LevelAssumption == MaxLevel \in Nat
ASSUME NoneAssumption ==
  None \notin [wait : Nat, attempts : Nat] \cup [credit : Credits, count : Nat]
ASSUME CreditsAssumption == IsFiniteSet(Credits)
ASSUME DocumentsAssumption == \A d \in Documents : WellTyped(d)
ASSUME EnvAssumption == Env \in [Text -> Text]

VARIABLES
  cfg,       \* the configuration in force
  wallet,    \* wallet[c]: what the service knows of credit c
  attempt,   \* PendingAttempt: [credit, count], count = VerificationCount
  backoff,   \* minutes until FailureBackoff.Until; 0 when it has passed
  cooling,   \* minutes until PostResetCooldown.Until
  clear,     \* PendingLocalClear: [wait, attempts]
  mgmt,      \* minutes until ManagementCooldown.Until
  stage,     \* where the scan of the account stands
  failures,  \* history: failures in a row, on record, of the open attempt or of
             \* the local clear that is owed
  due,       \* history: what is left of the wait that was last recorded
  exact      \* history: that wait is one that a Duration can hold

file == <<attempt, backoff, cooling, clear, mgmt>>
history == <<failures, due, exact>>
vars == <<cfg, wallet, file, stage, history>>

Least(x, y) == IF x < y THEN x ELSE y
Most(x, y) == IF x > y THEN x ELSE y

-----------------------------------------------------------------------------
(* Durations                                                               *)

MaxMinutes == 153722867  \* math.MaxInt64 nanoseconds

\* base * 2^(level - 1) minutes are at most MaxMinutes.
Fits(base, level) ==
  level <= 28 /\ base <= MaxMinutes \div 2 ^ (level - 1)

\* The product as a Duration. What becomes of a float64 that an int64 cannot
\* hold is up to the build: the least int64 on amd64, the greatest on arm64.
\* The plugin is released for both.
Scaled(base, level) ==
  IF Fits(base, level) THEN {base * 2 ^ (level - 1)} ELSE {-MaxMinutes, MaxMinutes}

\* A variant of BackoffDuration that does not grow.
BackoffConstant(level, base, maximum) == {Least(base, maximum)}

\* Without the jitter, which is added by the callers.
BackoffDuration(level, base, maximum) ==
  {Least(d, maximum) : d \in Scaled(base, level)}

SixHours == 360
HalfHour == 30
TenMinutes == 10
MaximumVerificationTries == 2

\* jitterFor adds up to a fifth of the base; its extremes stand for it.
\* retryAfter: what the service asked for.
TransientBackoff(level, base, retryAfter) ==
  {Most(d + j, retryAfter) :
     d \in BackoffDuration(level, base, SixHours), j \in {0, base \div 5}}

Base == cfg.backoff \div 60

-----------------------------------------------------------------------------
\* The truth about the account's credits, told row by row: rows may be missing,
\* repeated, in any order, or damaged; the count is right or missing.
Truthful(c) == [id |-> c, status |-> wallet[c], expiry |-> "future", limits |-> TRUE]

TruthfulRows == {Truthful(c) : c \in Credits}

Damaged(row) ==
  {[row EXCEPT !.id = Unreadable], [row EXCEPT !.status = "unknown"],
   [row EXCEPT !.expiry = "bad"]}

Replies ==
  LET truths == TruthfulRows
      rows == truths \cup UNION {Damaged(r) : r \in truths}
  IN UNION {[1 .. n -> rows] : n \in 0 .. MaxRows}

AvailableCount == Cardinality({c \in Credits : wallet[c] = "available"})

Init ==
  /\ cfg \in {Parse(d, Env) : d \in Documents} \ {Rejected}
  /\ wallet = [c \in Credits |-> "available"]
  /\ attempt = None /\ clear = None
  /\ backoff = 0 /\ cooling = 0 /\ mgmt = 0
  /\ stage = "idle"
  /\ failures = 0 /\ due = 0 /\ exact = TRUE

\* The wait of a failure, computed without the width of a Duration.
Exactly(base, level, cap) ==
  /\ due' = IF Fits(base, level) THEN Least(base * 2 ^ (level - 1), cap) ELSE cap
  /\ exact' = Fits(base, level)

Wait(level, base, retryAfter) ==
  \E d \in TransientBackoff(level, base, retryAfter) : backoff' = Most(d, 0)

Saturated(n) == Least(n, MaxLevel)

\* Retry-After: absent, or beyond every wait of the engine's own.
RetryAfters == {0, 2 * SixHours}

\* A change the engine writes when what it tried is over for now. Update may
\* fail, and nobody looks at its error: the file stays as it was.
BestEffort(change) ==
  stage' = "idle" /\ (change \/ UNCHANGED <<file, history>>)

\* recordTransientFailure, outside of an attempt: such failures are not counted,
\* the level is always 1.
TransientFailure ==
  /\ \E r \in RetryAfters : Wait(1, Base, r)
  /\ Exactly(Base, 1, SixHours)
  /\ UNCHANGED <<attempt, cooling, clear, mgmt, failures>>

\* bumpPendingVerification; markAmbiguous, when the answer may say how long to
\* wait.
Bump(retryAfter) ==
  /\ Wait(attempt.count + 1, Base, retryAfter)
  /\ attempt' = [attempt EXCEPT !.count = Saturated(@ + 1)]
  /\ failures' = Saturated(failures + 1)
  /\ Exactly(Base, failures + 1, SixHours)
  /\ UNCHANGED <<cooling, clear, mgmt>>

\* applyFailure: at least half an hour.
ApplyFailure ==
  /\ attempt' = None
  /\ Wait(1, Most(Base, HalfHour), 0)
  /\ Exactly(Most(Base, HalfHour), 1, SixHours)
  /\ failures' = 0
  /\ UNCHANGED <<cooling, clear, mgmt>>

\* The file after completeSuccessfulReset, up to the call of retryLocalClear.
RecordReset ==
  /\ attempt' = None /\ backoff' = 0
  /\ cooling' = cfg.cooldown \div 60
  /\ clear' = [wait |-> 0, attempts |-> 0]
  /\ failures' = 0 /\ due' = 0 /\ exact' = TRUE
  /\ UNCHANGED mgmt

\* completeSuccessfulReset. When Update reports an error, the file replaced or
\* not, the local clear is left to another scan.
Succeed == (RecordReset /\ stage' = "clear") \/ BestEffort(RecordReset)

-----------------------------------------------------------------------------
(* A scan of the account                                                   *)

MayClear == mgmt = 0 /\ clear # None /\ clear.wait = 0

\* A variant of MayQuery that is not held up by the cooldown.
MayQueryCooling == mgmt = 0 /\ clear = None /\ backoff = 0
MayQuery == mgmt = 0 /\ clear = None /\ cooling = 0 /\ backoff = 0

\* The early returns of processAccount, at a scan that may come at any moment.
Scan ==
  /\ stage = "idle" /\ Operable(cfg)
  /\ \/ MayClear /\ stage' = "clear"
     \/ MayQuery /\ stage' = "credits"
  /\ UNCHANGED <<cfg, wallet, file, history>>

\* resolvePending. err: the usage cannot be read. An engine that was stopped
\* meanwhile does not send the request again.
Verify(list, err) ==
  IF list = Unreadable \/ err THEN BestEffort(Bump(0))
  ELSE IF attempt.credit \notin list THEN Succeed
  ELSE IF attempt.count >= MaximumVerificationTries THEN BestEffort(ApplyFailure)
  ELSE stage' \in {"consume", "idle"} /\ UNCHANGED <<file, history>>

\* No attempt is open: one of the credits is tried, or none: no credit is left,
\* it is not worth it, or persistAttempt refuses. It may also report an error after
\* the file was replaced: the attempt is open and its request is not sent. err:
\* the usage, or the credits for the second time, cannot be read.
Plan(list, err) ==
  \/ /\ list = Unreadable \/ (list # {} /\ err)
     /\ BestEffort(TransientFailure)
  \/ list # Unreadable /\ stage' = "idle" /\ UNCHANGED <<file, history>>
  \/ /\ list # Unreadable /\ ~err
     /\ \E c \in list : attempt' = [credit |-> c, count |-> 0]
     /\ stage' \in {"consume", "idle"} /\ failures' = 0
     /\ UNCHANGED <<backoff, cooling, clear, mgmt, due, exact>>

\* The queries between the gate and the request.
Query(rows, count, err) ==
  /\ stage = "credits"
  /\ LET list == CreditList(rows, count) IN
     IF attempt # None THEN Verify(list, err) ELSE Plan(list, err)
  /\ UNCHANGED <<cfg, wallet>>

Redeemed == wallet[attempt.credit] # "available"

\* Consume: what the service does and what of it arrives.
Consume ==
  /\ stage = "consume"
  /\ \/ /\ ~Redeemed
        /\ wallet' = [wallet EXCEPT ![attempt.credit] = "redeemed"]
        /\ Succeed
     \/ Redeemed /\ UNCHANGED wallet /\ Succeed
     \/ BestEffort(ApplyFailure) /\ UNCHANGED wallet
     \/ \E status \in {wallet[attempt.credit], "redeemed"}, r \in RetryAfters :
          /\ wallet' = [wallet EXCEPT ![attempt.credit] = status]
          /\ BestEffort(Bump(r))
  /\ UNCHANGED cfg

\* retryLocalClear: the call went through, or it did not, with a base of a minute
\* and half an hour at most. The management API may answer that the key is wrong.
Cleared ==
  /\ clear' = None /\ failures' = 0 /\ due' = 0 /\ exact' = TRUE
  /\ UNCHANGED mgmt

ClearPending ==
  /\ \E d \in BackoffDuration(clear.attempts + 1, 1, HalfHour) :
       clear' = [wait |-> Most(d, 0), attempts |-> Saturated(clear.attempts + 1)]
  /\ mgmt' \in {mgmt, TenMinutes}
  /\ failures' = Saturated(failures + 1)
  /\ Exactly(1, failures + 1, HalfHour)

ClearCooldown ==
  /\ stage = "clear"
  /\ BestEffort(Cleared \/ ClearPending)
  /\ UNCHANGED <<cfg, wallet, attempt, backoff, cooling>>

-----------------------------------------------------------------------------
Waits ==
  {backoff, cooling, mgmt} \cup (IF clear = None THEN {} ELSE {clear.wait})

\* Time passes up to the next moment at which a wait is over.
Elapse ==
  /\ stage = "idle" /\ Waits # {0}
  /\ LET d == CHOOSE x \in Waits \ {0} : \A y \in Waits \ {0} : x <= y
         Later(w) == Most(w - d, 0)
     IN /\ backoff' = Later(backoff) /\ cooling' = Later(cooling)
        /\ mgmt' = Later(mgmt) /\ due' = Later(due)
        /\ clear' = IF clear = None THEN None ELSE [clear EXCEPT !.wait = Later(@)]
  /\ UNCHANGED <<cfg, wallet, attempt, stage, failures, exact>>

\* plugin.reconfigure; a configuration that Parse rejects changes nothing.
Reconfigure(document) ==
  /\ stage = "idle"
  /\ Parse(document, Env) # Rejected
  /\ cfg' = Parse(document, Env)
  /\ UNCHANGED <<wallet, file, stage, history>>

\* Someone else spends a credit, or the service begins to redeem it.
Spend(c) ==
  /\ stage = "idle" /\ wallet[c] = "available"
  /\ wallet' = [wallet EXCEPT ![c] = "redeemed"]
  /\ UNCHANGED <<cfg, file, stage, history>>

Next ==
  \/ Scan \/ Consume \/ ClearCooldown \/ Elapse
  \/ \E rows \in Replies, count \in {AvailableCount, Unreadable}, e \in BOOLEAN :
       Query(rows, count, e)
  \/ \E d \in Documents : Reconfigure(d)
  \/ \E c \in Credits : Spend(c)

Spec == Init /\ [][Next]_vars
==============================================================================
