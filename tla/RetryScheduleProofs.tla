------------------------- MODULE RetryScheduleProofs -------------------------
(***************************************************************************)
(* However high the counts of failures rise, whatever the service answers  *)
(* and whichever configurations come and go, the waits of the engine keep  *)
(* its requests apart, as long as a Duration can hold them.                *)
(***************************************************************************)
EXTENDS RetryScheduleProps, FiniteSetTheorems, TLAPS

\* The wait that holds up what is tried now.
CurrentWait == IF clear = None THEN backoff ELSE clear.wait

CfgBounded == cfg.backoff \in 60 .. Week /\ cfg.cooldown \in 60 .. Week

WaitTypes ==
  /\ backoff \in Nat /\ cooling \in Nat /\ mgmt \in Nat
  /\ due \in Nat /\ failures \in Nat
  /\ stage \in {"idle", "clear", "credits", "consume"}
  /\ clear # None => clear \in [wait : Nat, attempts : Nat]

\* While an attempt is open, or a local clear is owed, the level of the next wait
\* is the number of failures on record.
LevelCounts ==
  /\ attempt # None \/ stage = "consume" =>
       attempt = [credit |-> attempt.credit, count |-> failures]
  /\ clear # None => clear.attempts = failures /\ attempt = None

\* What a stage has passed.
StagePassed ==
  /\ stage = "clear" => clear # None /\ clear.wait = 0
  /\ stage \in {"credits", "consume"} =>
       clear = None /\ cooling = 0 /\ backoff = 0

WaitCovers == exact => due <= CurrentWait

SpacedInv ==
  CfgBounded /\ WaitTypes /\ LevelCounts /\ StagePassed /\ WaitCovers

-----------------------------------------------------------------------------
(* Durations                                                               *)

LEMMA PowerNat == \A n \in Nat : 2 ^ n \in Nat
<1> SUFFICES ASSUME NEW n \in Nat PROVE 2 ^ n \in Nat
  OBVIOUS
<1>1. IsFiniteSet(1 .. n) /\ Cardinality(1 .. n) = n
  BY FS_Interval
<1>2. /\ IsFiniteSet(SUBSET (1 .. n))
      /\ Cardinality(SUBSET (1 .. n)) = 2 ^ n
  BY <1>1, FS_SUBSET
<1> QED
  BY <1>2, FS_CardinalityType

\* A wait that a Duration can hold is the exact one; one that it cannot hold is
\* a number all the same.
LEMMA BackoffDurationExact ==
  ASSUME NEW base \in Nat, NEW level \in Nat, level > 0, NEW cap \in Nat
  PROVE  /\ BackoffDuration(level, base, cap) \subseteq Int
         /\ Fits(base, level) =>
              BackoffDuration(level, base, cap)
                = {Least(base * 2 ^ (level - 1), cap)}
<1>1. 2 ^ (level - 1) \in Nat
  BY PowerNat
<1>2. base * 2 ^ (level - 1) \in Nat
  BY <1>1
<1>3. Scaled(base, level) \subseteq Int
  BY <1>2 DEF Scaled, MaxMinutes
<1> QED
  BY <1>2, <1>3 DEF BackoffDuration, Scaled, Least

LEMMA ExactlyDue ==
  ASSUME NEW base \in Nat, NEW level \in Nat, level > 0, NEW cap \in Nat,
         Exactly(base, level, cap)
  PROVE  /\ due' \in Nat
         /\ exact' => /\ Fits(base, level)
                      /\ due' = Least(base * 2 ^ (level - 1), cap)
<1>1. 2 ^ (level - 1) \in Nat
  BY PowerNat
<1>2. base * 2 ^ (level - 1) \in Nat
  BY <1>1
<1> QED
  BY <1>2 DEF Exactly, Least

LEMMA WaitExact ==
  ASSUME NEW base \in Nat, NEW level \in Nat, level > 0, NEW retryAfter \in Nat,
         Wait(level, base, retryAfter), Exactly(base, level, SixHours)
  PROVE  /\ backoff' \in Nat /\ due' \in Nat
         /\ exact' => due' <= backoff'
<1> DEFINE D == BackoffDuration(level, base, SixHours)
<1>1. SixHours \in Nat
  BY DEF SixHours
<1>2. PICK d \in D, j \in {0, base \div 5} :
        backoff' = Most(Most(d + j, retryAfter), 0)
  BY DEF Wait, TransientBackoff
<1>3. d \in Int /\ j \in Nat
  BY <1>1, <1>2, BackoffDurationExact
<1>4. exact' => d = due'
  BY <1>1, <1>2, BackoffDurationExact, ExactlyDue
<1>5. due' \in Nat
  BY <1>1, ExactlyDue
<1>6. backoff' \in Nat /\ d <= backoff'
  BY <1>2, <1>3 DEF Most
<1> QED
  BY <1>4, <1>5, <1>6


-----------------------------------------------------------------------------
(* Configurations                                                          *)

\* What Parse lets through keeps the bounds of Validate.
LEMMA ParseBounds ==
  ASSUME NEW document, Parse(document, Env) # Rejected
  PROVE  /\ Parse(document, Env).backoff \in 60 .. Week
         /\ Parse(document, Env).cooldown \in 60 .. Week
<1> DEFINE given == [k \in DOMAIN Defaults |-> Given(document, k)]
           c == WithKey(given, Env)
<1>1. {"backoff", "cooldown", "threshold"} \subseteq DOMAIN given
  BY DEF Defaults
<1>2. /\ {"backoff", "cooldown", "threshold"} \subseteq DOMAIN c
      /\ c.backoff = given.backoff /\ c.cooldown = given.cooldown
  <2> HIDE DEF given
  <2> QED
    BY <1>1 DEF WithKey
<1>3. Valid(c) /\ Parse(document, Env)
        = [c EXCEPT !.threshold = IF @ < 80 THEN Defaults.threshold ELSE @]
  <2> HIDE DEF c
  <2>1. Parse(document, Env) = Validated(c)
    BY DEF Parse, c
  <2> QED
    BY <2>1 DEF Validated
<1> HIDE DEF c
<1> QED
  BY <1>2, <1>3 DEF Valid

LEMMA BaseNat == ASSUME CfgBounded PROVE Base \in Nat
BY DEF CfgBounded, Base

-----------------------------------------------------------------------------
(* What the outcomes of a query leave behind                               *)

LEMMA TransientStep ==
  ASSUME SpacedInv, stage = "credits", attempt = None, TransientFailure,
         stage' = "idle", UNCHANGED cfg
  PROVE  SpacedInv'
<1>1. PICK r \in RetryAfters : Wait(1, Base, r)
  BY DEF TransientFailure
<1>2. r \in Nat
  BY DEF RetryAfters, SixHours
<1>3. backoff' \in Nat /\ due' \in Nat /\ (exact' => due' <= backoff')
  <2>1. Exactly(Base, 1, SixHours) /\ Base \in Nat
    BY BaseNat DEF TransientFailure, SpacedInv
  <2> QED
    BY <1>1, <1>2, <2>1, WaitExact
<1> QED
  BY <1>3 DEF SpacedInv, CfgBounded, WaitTypes, LevelCounts, StagePassed,
     WaitCovers, CurrentWait, TransientFailure

LEMMA BumpStep ==
  ASSUME SpacedInv, stage \in {"credits", "consume"},
         attempt # None \/ stage = "consume",
         NEW r \in Nat, Bump(r), stage' = "idle", UNCHANGED cfg
  PROVE  SpacedInv'
<1>1. /\ attempt = [credit |-> attempt.credit, count |-> failures]
      /\ clear = None
  BY DEF SpacedInv, LevelCounts, StagePassed
<1>2. failures \in Nat /\ Saturated(failures + 1) \in Nat
  BY LevelAssumption DEF SpacedInv, WaitTypes, Saturated, Least
<1>3. attempt.count = failures
  BY <1>1
<1>4. backoff' \in Nat /\ due' \in Nat /\ (exact' => due' <= backoff')
  <2>1. /\ Wait(failures + 1, Base, r) /\ Exactly(Base, failures + 1, SixHours)
        /\ Base \in Nat
    BY <1>3, BaseNat DEF Bump, SpacedInv
  <2> QED
    BY <1>2, <2>1, WaitExact
<1>5. /\ attempt' = [credit |-> attempt.credit, count |-> Saturated(failures + 1)]
      /\ failures' = Saturated(failures + 1)
  <2> HIDE DEF Saturated
  <2> QED
    BY <1>1, <1>3 DEF Bump
<1>6. attempt' = [credit |-> attempt'.credit, count |-> failures']
  BY <1>5
<1> QED
  BY <1>1, <1>2, <1>4, <1>5, <1>6 DEF SpacedInv, CfgBounded, WaitTypes,
     LevelCounts, StagePassed, WaitCovers, CurrentWait, Bump

LEMMA FailureStep ==
  ASSUME SpacedInv, stage \in {"credits", "consume"}, ApplyFailure,
         stage' = "idle", UNCHANGED cfg
  PROVE  SpacedInv'
<1>1. backoff' \in Nat /\ due' \in Nat /\ (exact' => due' <= backoff')
  <2>1. Most(Base, HalfHour) \in Nat
    BY BaseNat DEF SpacedInv, Most, HalfHour
  <2>2. /\ Wait(1, Most(Base, HalfHour), 0)
        /\ Exactly(Most(Base, HalfHour), 1, SixHours)
    BY DEF ApplyFailure
  <2> QED
    BY <2>1, <2>2, WaitExact
<1> QED
  BY <1>1 DEF SpacedInv, CfgBounded, WaitTypes, LevelCounts, StagePassed,
     WaitCovers, CurrentWait, ApplyFailure

LEMMA ResetStep ==
  ASSUME SpacedInv, stage \in {"credits", "consume"}, RecordReset,
         stage' \in {"clear", "idle"}, UNCHANGED cfg
  PROVE  SpacedInv'
<1>1. cooling' \in Nat
  BY DEF SpacedInv, CfgBounded, RecordReset
<1>2. clear' = [wait |-> 0, attempts |-> 0] /\ clear' # None
  BY NoneAssumption DEF RecordReset
<1> QED
  BY <1>1, <1>2 DEF SpacedInv, CfgBounded, WaitTypes, LevelCounts,
     StagePassed, WaitCovers, CurrentWait, RecordReset

\* A failed Update leaves everything as it was, and the scan ends.
LEMMA UnwrittenStep ==
  ASSUME SpacedInv, UNCHANGED <<file, history>>, stage' = "idle", UNCHANGED cfg
  PROVE  SpacedInv'
BY DEF SpacedInv, file, history, CfgBounded, WaitTypes, LevelCounts, StagePassed,
   WaitCovers, CurrentWait

LEMMA SucceedStep ==
  ASSUME SpacedInv, stage \in {"credits", "consume"}, Succeed, UNCHANGED cfg
  PROVE  SpacedInv'
BY ResetStep, UnwrittenStep DEF Succeed, BestEffort

-----------------------------------------------------------------------------
(* The steps                                                               *)

LEMMA InitSpaced == Init => SpacedInv
<1> SUFFICES ASSUME Init PROVE SpacedInv
  OBVIOUS
<1>1. CfgBounded
  BY ParseBounds DEF Init, CfgBounded
<1> QED
  BY <1>1 DEF Init, SpacedInv, WaitTypes, LevelCounts, StagePassed, WaitCovers,
     CurrentWait

LEMMA ScanStep == ASSUME SpacedInv, Scan PROVE SpacedInv'
BY DEF SpacedInv, Scan, file, history, MayClear, MayQuery, CfgBounded,
   WaitTypes, LevelCounts, StagePassed, WaitCovers, CurrentWait

LEMMA QueryStep ==
  ASSUME SpacedInv, NEW rows, NEW count, NEW err, Query(rows, count, err)
  PROVE  SpacedInv'
<1>1. stage = "credits" /\ UNCHANGED cfg
  BY DEF Query
<1> DEFINE list == CreditList(rows, count)
<1>2. CASE UNCHANGED <<file, history>> /\ stage' = "idle"
  BY <1>1, <1>2, UnwrittenStep
<1>3. CASE attempt # None
  <2>1. Verify(list, err)
    BY <1>3 DEF Query
  <2>2. CASE Bump(0) /\ stage' = "idle"
    BY <1>1, <1>3, <2>2, BumpStep
  <2>3. CASE Succeed
    BY <1>1, <2>3, SucceedStep
  <2>4. CASE ApplyFailure /\ stage' = "idle"
    BY <1>1, <2>4, FailureStep
  <2>5. CASE /\ stage' \in {"consume", "idle"}
            /\ UNCHANGED <<file, history>>
    BY <1>1, <1>3, <2>5 DEF SpacedInv, file, history, CfgBounded, WaitTypes,
       LevelCounts, StagePassed, WaitCovers, CurrentWait
  <2> QED
    BY <1>2, <2>1, <2>2, <2>3, <2>4, <2>5 DEF Verify, BestEffort
<1>4. CASE attempt = None
  <2>1. Plan(list, err)
    BY <1>4 DEF Query
  <2>2. CASE TransientFailure /\ stage' = "idle"
    BY <1>1, <1>4, <2>2, TransientStep
  <2>3. ASSUME NEW c, attempt' = [credit |-> c, count |-> 0],
               stage' \in {"consume", "idle"}, failures' = 0,
               UNCHANGED <<backoff, cooling, clear, mgmt, due, exact>>
        PROVE  SpacedInv'
    <3>1. attempt' = [credit |-> attempt'.credit, count |-> failures']
      BY <2>3
    <3> QED
      BY <1>1, <2>3, <3>1 DEF SpacedInv, CfgBounded, WaitTypes, LevelCounts,
         StagePassed, WaitCovers, CurrentWait
  <2> QED
    BY <1>2, <2>1, <2>2, <2>3 DEF Plan, BestEffort
<1> QED
  BY <1>3, <1>4

LEMMA ConsumeStep == ASSUME SpacedInv, Consume PROVE SpacedInv'
<1>1. stage = "consume" /\ UNCHANGED cfg
  BY DEF Consume
<1>2. CASE Succeed
  BY <1>1, <1>2, SucceedStep
<1>3. CASE ApplyFailure /\ stage' = "idle"
  BY <1>1, <1>3, FailureStep
<1>4. ASSUME NEW r \in RetryAfters, Bump(r), stage' = "idle"
      PROVE  SpacedInv'
  <2>1. r \in Nat
    BY DEF RetryAfters, SixHours
  <2> QED
    BY <1>1, <1>4, <2>1, BumpStep
<1>5. CASE UNCHANGED <<file, history>> /\ stage' = "idle"
  BY <1>1, <1>5, UnwrittenStep
<1> QED
  BY <1>2, <1>3, <1>4, <1>5 DEF Consume, BestEffort

LEMMA ClearStep == ASSUME SpacedInv, ClearCooldown PROVE SpacedInv'
<1>1. /\ clear \in [wait : Nat, attempts : Nat] /\ clear.attempts = failures
      /\ attempt = None /\ failures \in Nat
  BY DEF ClearCooldown, SpacedInv, WaitTypes, LevelCounts, StagePassed
<1>2. /\ stage = "clear" /\ stage' = "idle"
      /\ UNCHANGED <<cfg, wallet, attempt, backoff, cooling>>
  BY DEF ClearCooldown, BestEffort
<1>3. CASE Cleared
  BY <1>1, <1>2, <1>3 DEF Cleared, SpacedInv, CfgBounded, WaitTypes,
     LevelCounts, StagePassed, WaitCovers, CurrentWait
<1>4. CASE ClearPending
  <2>1. HalfHour \in Nat
    BY DEF HalfHour
  <2>2. PICK d \in BackoffDuration(failures + 1, 1, HalfHour) :
          clear' = [wait |-> Most(d, 0), attempts |-> Saturated(failures + 1)]
    BY <1>1, <1>4 DEF ClearPending
  <2>3. /\ failures' = Saturated(failures + 1)
        /\ Exactly(1, failures + 1, HalfHour)
    BY <1>4 DEF ClearPending
  <2>4. d \in Int /\ due' \in Nat /\ (exact' => d = due')
    BY <1>1, <2>1, <2>2, <2>3, BackoffDurationExact, ExactlyDue
  <2>5. Most(d, 0) \in Nat /\ d <= Most(d, 0)
    BY <2>4 DEF Most
  <2>6. Saturated(failures + 1) \in Nat
    BY <1>1, LevelAssumption DEF Saturated, Least
  <2>7. /\ clear' \in [wait : Nat, attempts : Nat] /\ clear' # None
        /\ clear'.wait = Most(d, 0) /\ clear'.attempts = failures'
    BY <2>2, <2>3, <2>5, <2>6, NoneAssumption
  <2>8. mgmt' \in Nat
    BY <1>4 DEF ClearPending, SpacedInv, WaitTypes, TenMinutes
  <2>9. exact' => due' <= clear'.wait
    BY <2>4, <2>5, <2>7
  <2> QED
    BY <1>1, <1>2, <2>3, <2>4, <2>6, <2>7, <2>8, <2>9 DEF SpacedInv,
       CfgBounded, WaitTypes, LevelCounts, StagePassed, WaitCovers, CurrentWait
<1>5. CASE UNCHANGED <<file, history>>
  BY <1>2, <1>5, UnwrittenStep
<1> QED
  BY <1>3, <1>4, <1>5 DEF ClearCooldown, BestEffort

\* Elapse goes to the end of a wait.
LEMMA NextMoment ==
  ASSUME SpacedInv, Elapse
  PROVE  (CHOOSE x \in Waits \ {0} : \A y \in Waits \ {0} : x <= y) \in Nat
<1>1. Waits \subseteq Nat
  BY DEF SpacedInv, WaitTypes, Waits
<1>2. Waits # {} /\ Waits \ {0} # {}
  BY DEF Elapse, Waits
<1>3. PICK m \in Waits \ {0} : \A y \in Waits \ {0} : m <= y
  BY <1>1, <1>2 DEF Waits, SpacedInv, WaitTypes
<1> QED
  BY <1>1, <1>3

LEMMA ElapseStep == ASSUME SpacedInv, Elapse PROVE SpacedInv'
<1> DEFINE d == CHOOSE x \in Waits \ {0} : \A y \in Waits \ {0} : x <= y
<1>1. PICK n : n = d
  OBVIOUS
<1>2. /\ backoff' = Most(backoff - n, 0) /\ cooling' = Most(cooling - n, 0)
      /\ mgmt' = Most(mgmt - n, 0) /\ due' = Most(due - n, 0)
      /\ clear' = IF clear = None THEN None
                  ELSE [clear EXCEPT !.wait = Most(@ - n, 0)]
      /\ stage = "idle"
      /\ UNCHANGED <<cfg, wallet, attempt, stage, failures, exact>>
  BY <1>1 DEF Elapse
<1>3. n \in Nat
  BY <1>1, NextMoment
<1>4. backoff' \in Nat /\ cooling' \in Nat /\ mgmt' \in Nat /\ due' \in Nat
  BY <1>2, <1>3 DEF SpacedInv, WaitTypes, Most
<1>5. CASE clear = None
  <2>1. exact' => due' <= backoff'
    BY <1>2, <1>3, <1>5 DEF SpacedInv, WaitTypes, WaitCovers, CurrentWait, Most
  <2> QED
    BY <1>2, <1>4, <1>5, <2>1 DEF SpacedInv, CfgBounded, WaitTypes,
       LevelCounts, StagePassed, WaitCovers, CurrentWait
<1>6. CASE clear # None
  <2>1. /\ clear' \in [wait : Nat, attempts : Nat] /\ clear' # None
        /\ clear'.wait = Most(clear.wait - n, 0)
        /\ clear'.attempts = clear.attempts
    BY <1>2, <1>3, <1>6, NoneAssumption DEF SpacedInv, WaitTypes, Most
  <2>2. exact' => due' <= clear'.wait
    BY <1>2, <1>3, <1>6, <2>1 DEF SpacedInv, WaitTypes, WaitCovers, CurrentWait,
       Most
  <2> QED
    BY <1>2, <1>4, <1>6, <2>1, <2>2 DEF SpacedInv, CfgBounded, WaitTypes,
       LevelCounts, StagePassed, WaitCovers, CurrentWait
<1> QED
  BY <1>5, <1>6

LEMMA SpacedStep == ASSUME SpacedInv, [Next]_vars PROVE SpacedInv'
<1>1. ASSUME NEW doc \in Documents, Reconfigure(doc) PROVE SpacedInv'
  <2>1. CfgBounded'
    BY <1>1, ParseBounds DEF Reconfigure, CfgBounded
  <2> QED
    BY <1>1, <2>1 DEF Reconfigure, file, history, SpacedInv, WaitTypes,
       LevelCounts, StagePassed, WaitCovers, CurrentWait
<1>2. ASSUME NEW c \in Credits, Spend(c) PROVE SpacedInv'
  BY <1>2 DEF Spend, file, history, SpacedInv, CfgBounded, WaitTypes,
     LevelCounts, StagePassed, WaitCovers, CurrentWait
<1>3. CASE UNCHANGED vars
  BY <1>3 DEF vars, file, history, SpacedInv, CfgBounded, WaitTypes,
     LevelCounts, StagePassed, WaitCovers, CurrentWait
<1> QED
  BY <1>1, <1>2, <1>3, ScanStep, QueryStep, ConsumeStep, ClearStep, ElapseStep
  DEF Next

-----------------------------------------------------------------------------
(* What a list says of the credits                                         *)

LEMMA TruthfulFields ==
  ASSUME NEW c
  PROVE  Truthful(c).id = c /\ Truthful(c).limits = TRUE
BY DEF Truthful

\* A list that is taken at its word has exactly the available credits: the rows
\* tell apart as many credits as the service counts.
LEMMA ListComplete ==
  ASSUME NEW rows \in Replies, NEW count \in {AvailableCount, Unreadable},
         CreditList(rows, count) # Unreadable
  PROVE  CreditList(rows, count) = {c \in Credits : wallet[c] = "available"}
<1> DEFINE known == {c \in Credits : wallet[c] = "available"}
           ID == [i \in Details(rows) |-> rows[i].id]
<1>1. Readable(rows) /\ count = Cardinality(Details(rows))
  BY DEF CreditList
<1>2. PICK n \in 0 .. MaxRows :
        rows \in [1 .. n -> TruthfulRows
                            \cup UNION {Damaged(r) : r \in TruthfulRows}]
  BY DEF Replies
<1>3. IsFiniteSet(Details(rows)) /\ Cardinality(Details(rows)) \in Nat
  <2>1. IsFiniteSet(1 .. n)
    BY <1>2, FS_Interval
  <2>2. Details(rows) \subseteq 1 .. n
    BY <1>2 DEF Details
  <2> QED
    BY <2>1, <2>2, FS_Subset, FS_CardinalityType
<1>4. IsFiniteSet(known) /\ count = Cardinality(known)
  <2>1. IsFiniteSet(known)
    BY CreditsAssumption, FS_Subset
  <2> QED
    BY <1>1, <1>3, <2>1, UnreadableAssumption DEF AvailableCount
<1>5. \A i \in Details(rows) : \E c \in known : rows[i] = Truthful(c)
  <2> SUFFICES ASSUME NEW i \in Details(rows)
               PROVE  \E c \in known : rows[i] = Truthful(c)
    OBVIOUS
  <2>1. /\ rows[i].status = "available" /\ rows[i].id # Unreadable
        /\ rows[i].expiry = "future" /\ i \in 1 .. n
    BY <1>1, <1>2 DEF Details, Readable, Faulty, IsAvailable
  <2>2. rows[i] \in TruthfulRows
    <3>1. ASSUME NEW r \in TruthfulRows, rows[i] \in Damaged(r) PROVE FALSE
      BY <2>1, <3>1 DEF Damaged, TruthfulRows, Truthful
    <3> QED
      BY <1>2, <2>1, <3>1
  <2>3. PICK c \in Credits : rows[i] = Truthful(c)
    BY <2>2 DEF TruthfulRows
  <2>4. wallet[c] = "available"
    BY <2>1, <2>3 DEF Truthful
  <2> QED
    BY <2>3, <2>4
<1>6. ID \in Injection(Details(rows), known)
  <2>1. ASSUME NEW i \in Details(rows) PROVE rows[i].id \in known
    <3>1. PICK c \in known : rows[i] = Truthful(c)
      BY <1>5
    <3>2. Truthful(c).id = c
      BY TruthfulFields
    <3> HIDE DEF known
    <3> QED
      BY <3>1, <3>2
  <2>2. \A i, j \in Details(rows) : rows[i].id = rows[j].id => i = j
    BY <1>1 DEF Readable
  <2> QED
    BY <2>1, <2>2 DEF Injection, IsInjective
<1>7. ID \in Surjection(Details(rows), known)
  BY <1>1, <1>4, <1>6, FS_Injection
<1>8. \A i \in Details(rows) : rows[i].limits = TRUE
  BY <1>5, TruthfulFields
<1>9. Available(rows) = known
  BY <1>6, <1>7, <1>8 DEF Available, Injection, Surjection
<1> QED
  BY <1>9 DEF CreditList

-----------------------------------------------------------------------------
(* Types                                                                   *)

LEMMA GivenTyped ==
  ASSUME NEW document, WellTyped(document), Decodes(document),
         NEW field \in DOMAIN Defaults
  PROVE  Given(document, field) \in FieldTypes[field]
<1> DEFINE said == {i \in DOMAIN document : document[i][1] = field}
<1>1. field \in DOMAIN FieldTypes /\ Defaults[field] \in FieldTypes[field]
  <2>1. field \in {"enabled", "url", "key", "keyEnv", "interval", "cooldown",
                   "backoff", "stateDir", "defaultParticipation", "threshold"}
    BY DEF Defaults
  <2>2. /\ Defaults["enabled"] = FALSE /\ FieldTypes["enabled"] = BOOLEAN
        /\ Defaults["defaultParticipation"] = FALSE
        /\ FieldTypes["defaultParticipation"] = BOOLEAN
    BY DEF Defaults, FieldTypes
  <2>3. /\ Defaults["url"] \in Text /\ Defaults["key"] \in Text
        /\ Defaults["keyEnv"] \in Text /\ Defaults["stateDir"] \in Text
    BY TextAssumption DEF Defaults
  <2>4. /\ Defaults["interval"] \in Int /\ Defaults["cooldown"] \in Int
        /\ Defaults["backoff"] \in Int /\ Defaults["threshold"] \in Int
    BY DEF Defaults
  <2>5. /\ FieldTypes["url"] = Text /\ FieldTypes["key"] = Text
        /\ FieldTypes["keyEnv"] = Text /\ FieldTypes["stateDir"] = Text
        /\ FieldTypes["interval"] = Int /\ FieldTypes["cooldown"] = Int
        /\ FieldTypes["backoff"] = Int /\ FieldTypes["threshold"] = Int
    BY DEF FieldTypes
  <2>6. field \in DOMAIN FieldTypes
    BY DEF Defaults, FieldTypes
  <2>7. field \in {"enabled", "defaultParticipation"}
          => Defaults[field] \in FieldTypes[field]
    BY <2>2
  <2>8. field \in {"url", "key", "keyEnv", "stateDir"}
          => Defaults[field] \in FieldTypes[field]
    BY <2>3, <2>5
  <2>9. field \in {"interval", "cooldown", "backoff", "threshold"}
          => Defaults[field] \in FieldTypes[field]
    BY <2>4, <2>5
  <2> QED
    BY <2>1, <2>6, <2>7, <2>8, <2>9
<1>2. CASE said = {}
  BY <1>1, <1>2 DEF Given
<1>3. CASE said # {}
  <2>1. PICK i : i = CHOOSE j \in said : TRUE
    OBVIOUS
  <2>2. i \in said /\ Given(document, field) = document[i][2]
    BY <1>3, <2>1 DEF Given
  <2>3. document[i][1] = field /\ document[i][2] # Malformed
    BY <2>2 DEF Decodes
  <2> QED
    BY <1>1, <2>2, <2>3 DEF WellTyped
<1> QED
  BY <1>2, <1>3

\* Whatever the document, the configuration that Parse returns is complete and
\* within the bounds.
LEMMA ParseTyped ==
  ASSUME NEW document, WellTyped(document),
         Parse(document, Env) # Rejected
  PROVE  Parse(document, Env) \in Configs
<1> DEFINE given == [k \in DOMAIN Defaults |-> Given(document, k)]
           c == WithKey(given, Env)
           fields == {"enabled", "url", "key", "keyEnv", "interval", "cooldown",
                      "backoff", "stateDir", "defaultParticipation", "threshold"}
<1>1. DOMAIN Defaults = fields /\ Decodes(document)
  BY DEF Defaults, Parse
<1>2. given = [k \in fields |-> given[k]]
  BY <1>1
<1>3. /\ given.enabled \in BOOLEAN /\ given.key \in Text
      /\ given.keyEnv \in Text
      /\ given.stateDir \in Text /\ given.defaultParticipation \in BOOLEAN
      /\ given.threshold \in Int
  <2> HIDE DEF given
  <2>1. \A k \in fields : given[k] \in FieldTypes[k]
    BY <1>1, GivenTyped DEF given
  <2> QED
    BY <2>1 DEF FieldTypes
<1>4. /\ c = [k \in fields |-> c[k]] /\ c.key \in Text
      /\ \A k \in fields \ {"key"} : c[k] = given[k]
  <2> HIDE DEF given
  <2> QED
    BY <1>2, <1>3, EnvAssumption DEF WithKey
<1>5. Valid(c) /\ Parse(document, Env)
        = [c EXCEPT !.threshold = IF @ < 80 THEN Defaults.threshold ELSE @]
  <2>1. Parse(document, Env) = Validated(c)
    BY DEF Parse
  <2> HIDE DEF c
  <2> QED
    BY <2>1 DEF Validated
<1>6. /\ c.enabled \in BOOLEAN /\ c.keyEnv \in Text /\ c.stateDir \in Text
      /\ c.defaultParticipation \in BOOLEAN /\ c.threshold \in Int
  <2> HIDE DEF c, given
  <2> QED
    BY <1>3, <1>4
<1>7. Defaults.threshold = 95
  BY DEF Defaults
<1> HIDE DEF c, given
<1>8. DEFINE t == IF c.threshold < 80 THEN 95 ELSE c.threshold
<1>9. t \in 80 .. 100
  <2>1. c.threshold \in Int /\ c.threshold <= 100
    BY <1>5, <1>6 DEF Valid
  <2> QED
    BY <2>1
<1>10. Parse(document, Env)
         = [enabled |-> c.enabled, url |-> c.url, key |-> c.key,
            keyEnv |-> c.keyEnv, interval |-> c.interval,
            cooldown |-> c.cooldown, backoff |-> c.backoff,
            stateDir |-> c.stateDir,
            defaultParticipation |-> c.defaultParticipation, threshold |-> t]
  BY <1>4, <1>5, <1>7
<1> HIDE DEF t
<1>11. /\ c.url \in UsableURLs /\ c.interval \in 60 .. Week
       /\ c.cooldown \in 60 .. Week /\ c.backoff \in 60 .. Week
  BY <1>5 DEF Valid
<1> QED
  BY <1>4, <1>6, <1>9, <1>10, <1>11 DEF Configs

LEMMA SaturatedLevel ==
  ASSUME NEW n \in Nat PROVE Saturated(n) \in 0 .. MaxLevel
BY LevelAssumption DEF Saturated, Least

LEMMA ExactlyTyped ==
  ASSUME NEW base \in Nat, NEW level \in Nat, level > 0, NEW cap \in Nat,
         Exactly(base, level, cap)
  PROVE  due' \in 0 .. cap /\ exact' \in BOOLEAN
<1>1. 2 ^ (level - 1) \in Nat
  BY PowerNat
<1>2. base * 2 ^ (level - 1) \in Nat
  BY <1>1
<1>3. exact' \in BOOLEAN
  BY DEF Exactly, Fits
<1> QED
  BY <1>2, <1>3 DEF Exactly, Least

\* The parts of TypeOK that are more than SpacedInv.
FileTypes ==
  /\ attempt \in [credit : Credits, count : 0 .. MaxLevel] \cup {None}
  /\ clear \in [wait : 0 .. HalfHour, attempts : 0 .. MaxLevel] \cup {None}
  /\ mgmt \in 0 .. TenMinutes
  /\ stage = "consume" => attempt # None

HistoryTypes ==
  failures \in 0 .. MaxLevel /\ due \in 0 .. SixHours /\ exact \in BOOLEAN

LEMMA TransientTyped ==
  ASSUME SpacedInv, FileTypes, HistoryTypes, TransientFailure, stage' = "idle"
  PROVE  FileTypes' /\ HistoryTypes'
<1>1. due' \in 0 .. SixHours /\ exact' \in BOOLEAN
  <2>1. SixHours \in Nat /\ Base \in Nat /\ Exactly(Base, 1, SixHours)
    BY BaseNat DEF SpacedInv, TransientFailure, SixHours
  <2> QED
    BY <2>1, ExactlyTyped
<1> QED
  BY <1>1 DEF FileTypes, HistoryTypes, TransientFailure

LEMMA BumpTyped ==
  ASSUME SpacedInv, FileTypes, HistoryTypes, attempt # None, NEW r, Bump(r),
         stage' = "idle"
  PROVE  FileTypes' /\ HistoryTypes'
<1>1. due' \in 0 .. SixHours /\ exact' \in BOOLEAN
  BY BaseNat, ExactlyTyped DEF SpacedInv, WaitTypes, Bump, SixHours
<1>2. failures' \in 0 .. MaxLevel
  BY SaturatedLevel DEF SpacedInv, WaitTypes, Bump
<1>3. attempt \in [credit : Credits, count : 0 .. MaxLevel]
  BY DEF FileTypes
<1>4. Saturated(attempt.count + 1) \in 0 .. MaxLevel
  BY <1>3, SaturatedLevel
<1>5. attempt' \in [credit : Credits, count : 0 .. MaxLevel]
  <2> HIDE DEF Saturated
  <2> QED
    BY <1>3, <1>4 DEF Bump
<1> QED
  BY <1>1, <1>2, <1>5 DEF FileTypes, HistoryTypes, Bump

LEMMA FailureTyped ==
  ASSUME SpacedInv, FileTypes, HistoryTypes, ApplyFailure, stage' = "idle"
  PROVE  FileTypes' /\ HistoryTypes'
<1>1. Most(Base, HalfHour) \in Nat
  BY BaseNat DEF SpacedInv, Most, HalfHour
<1>2. due' \in 0 .. SixHours /\ exact' \in BOOLEAN
  <2>1. SixHours \in Nat /\ Exactly(Most(Base, HalfHour), 1, SixHours)
    BY DEF ApplyFailure, SixHours
  <2> QED
    BY <1>1, <2>1, ExactlyTyped
<1> QED
  BY <1>2, LevelAssumption DEF FileTypes, HistoryTypes, ApplyFailure

LEMMA ResetTyped ==
  ASSUME FileTypes, HistoryTypes, RecordReset, stage' # "consume"
  PROVE  FileTypes' /\ HistoryTypes'
<1>1. clear' \in [wait : 0 .. HalfHour, attempts : 0 .. MaxLevel]
  BY LevelAssumption DEF RecordReset, HalfHour
<1> QED
  BY <1>1, LevelAssumption
  DEF FileTypes, HistoryTypes, RecordReset, SixHours

LEMMA UnwrittenTyped ==
  ASSUME FileTypes, HistoryTypes, UNCHANGED <<file, history>>, stage' # "consume"
  PROVE  FileTypes' /\ HistoryTypes'
BY DEF FileTypes, HistoryTypes, file, history

LEMMA SucceedTyped ==
  ASSUME FileTypes, HistoryTypes, Succeed
  PROVE  FileTypes' /\ HistoryTypes'
BY ResetTyped, UnwrittenTyped DEF Succeed, BestEffort

LEMMA QueryTyped ==
  ASSUME SpacedInv, FileTypes, HistoryTypes,
         NEW rows, NEW count, NEW err, Query(rows, count, err),
         CreditList(rows, count) = Unreadable
           \/ CreditList(rows, count) \subseteq Credits
  PROVE  FileTypes' /\ HistoryTypes'
<1> DEFINE list == CreditList(rows, count)
<1>1. stage = "credits"
  BY DEF Query
<1>2. CASE UNCHANGED <<file, history>> /\ stage' = "idle"
  BY <1>2, UnwrittenTyped
<1>3. CASE attempt # None
  <2>1. Verify(list, err)
    BY <1>3 DEF Query
  <2>2. CASE /\ stage' \in {"consume", "idle"}
            /\ UNCHANGED <<file, history>>
    BY <1>3, <2>2 DEF FileTypes, HistoryTypes, file, history
  <2> QED
    BY <1>2, <1>3, <2>1, <2>2, BumpTyped, SucceedTyped, FailureTyped
    DEF Verify, BestEffort
<1>4. CASE attempt = None
  <2>1. Plan(list, err)
    BY <1>4 DEF Query
  <2>2. ASSUME list # Unreadable, NEW c \in list,
               attempt' = [credit |-> c, count |-> 0],
               stage' \in {"consume", "idle"}, failures' = 0,
               UNCHANGED <<backoff, cooling, clear, mgmt, due, exact>>
        PROVE  FileTypes' /\ HistoryTypes'
    <3>1. c \in Credits /\ 0 \in 0 .. MaxLevel
      <4>1. list \subseteq Credits
        BY <2>2
      <4>2. c \in Credits
        BY <2>2, <4>1
      <4> QED
        BY <4>2, LevelAssumption
    <3>2. /\ attempt' \in [credit : Credits, count : 0 .. MaxLevel]
          /\ attempt' \in [credit : Credits, count : Nat]
      BY <2>2, <3>1
    <3>3. attempt' # None
      BY <3>2, NoneAssumption
    <3> QED
      BY <2>2, <3>1, <3>2, <3>3 DEF FileTypes, HistoryTypes
  <2> HIDE DEF list
  <2> QED
    BY <1>2, <2>1, <2>2, TransientTyped DEF Plan, BestEffort
<1> QED
  BY <1>3, <1>4

LEMMA ClearTyped ==
  ASSUME SpacedInv, FileTypes, HistoryTypes, ClearCooldown
  PROVE  FileTypes' /\ HistoryTypes'
<1>1. clear # None
  BY DEF ClearCooldown, SpacedInv, StagePassed
<1>2. /\ clear \in [wait : 0 .. HalfHour, attempts : 0 .. MaxLevel]
      /\ failures \in Nat
  BY <1>1 DEF FileTypes, SpacedInv, WaitTypes
<1>3. stage' = "idle" /\ UNCHANGED attempt
  BY DEF ClearCooldown, BestEffort
<1>4. CASE Cleared
  BY <1>3, <1>4, LevelAssumption DEF Cleared, FileTypes, HistoryTypes, SixHours
<1>5. CASE ClearPending
  <2>1. HalfHour \in Nat /\ clear.attempts + 1 \in Nat /\ clear.attempts + 1 > 0
    BY <1>2, LevelAssumption DEF HalfHour
  <2>2. PICK d \in BackoffDuration(clear.attempts + 1, 1, HalfHour) :
          clear' = [wait |-> Most(d, 0),
                    attempts |-> Saturated(clear.attempts + 1)]
    BY <1>5 DEF ClearPending
  <2>3. d \in Int
    BY <2>1, BackoffDurationExact
  <2>4. Most(d, 0) \in 0 .. HalfHour
    <3>1. PICK s \in Scaled(1, clear.attempts + 1) : d = Least(s, HalfHour)
      BY <2>2 DEF BackoffDuration
    <3>2. d <= HalfHour
      <4>1. s \in Int
        <5>1. clear.attempts + 1 - 1 \in Nat
          BY <1>2
        <5>2. 2 ^ (clear.attempts + 1 - 1) \in Nat
          BY <5>1, PowerNat
        <5> QED
          BY <3>1, <5>2 DEF Scaled, MaxMinutes
      <4> QED
        BY <2>1, <3>1, <4>1 DEF Least
    <3> QED
      BY <2>1, <2>3, <3>2 DEF Most
  <2>5. /\ Saturated(clear.attempts + 1) \in 0 .. MaxLevel
        /\ failures' \in 0 .. MaxLevel
    BY <1>2, <1>5, <2>1, SaturatedLevel DEF ClearPending
  <2>6. clear' \in [wait : 0 .. HalfHour, attempts : 0 .. MaxLevel]
    BY <2>2, <2>4, <2>5
  <2>7. due' \in 0 .. HalfHour /\ exact' \in BOOLEAN
    BY <1>2, <1>5, <2>1, ExactlyTyped DEF ClearPending
  <2> QED
    BY <1>3, <1>5, <2>5, <2>6, <2>7 DEF ClearPending, FileTypes, HistoryTypes,
       SixHours, HalfHour, TenMinutes
<1>6. CASE UNCHANGED <<file, history>>
  BY <1>3, <1>6, UnwrittenTyped
<1> QED
  BY <1>4, <1>5, <1>6 DEF ClearCooldown, BestEffort

LEMMA ElapseTyped ==
  ASSUME SpacedInv, FileTypes, HistoryTypes, Elapse
  PROVE  FileTypes' /\ HistoryTypes'
<1> DEFINE d == CHOOSE x \in Waits \ {0} : \A y \in Waits \ {0} : x <= y
<1>1. PICK n : n = d
  OBVIOUS
<1>2. n \in Nat
  BY <1>1, NextMoment
<1>3. /\ mgmt' = Most(mgmt - n, 0) /\ due' = Most(due - n, 0)
      /\ clear' = IF clear = None THEN None
                  ELSE [clear EXCEPT !.wait = Most(@ - n, 0)]
      /\ stage' # "consume"
      /\ UNCHANGED <<attempt, failures, exact>>
  BY <1>1 DEF Elapse
<1>4. mgmt' \in 0 .. TenMinutes /\ due' \in 0 .. SixHours
  <2>1. mgmt \in 0 .. TenMinutes /\ due \in 0 .. SixHours
    BY DEF FileTypes, HistoryTypes
  <2>2. mgmt' = Most(mgmt - n, 0) /\ due' = Most(due - n, 0)
    BY <1>3
  <2> QED
    BY <1>2, <2>1, <2>2 DEF Most, TenMinutes, SixHours
<1>5. clear' \in [wait : 0 .. HalfHour, attempts : 0 .. MaxLevel] \cup {None}
  <2>1. CASE clear = None
    BY <1>3, <2>1
  <2>2. CASE clear # None
    BY <1>2, <1>3, <2>2 DEF FileTypes, Most, HalfHour
  <2> QED
    BY <2>1, <2>2
<1> QED
  BY <1>3, <1>4, <1>5 DEF FileTypes, HistoryTypes

LEMMA TypesStep ==
  ASSUME SpacedInv, TypeOK, [Next]_vars
  PROVE  TypeOK'
<1>1. SpacedInv'
  BY SpacedStep
<1>2. FileTypes /\ HistoryTypes
  BY DEF TypeOK, FileTypes, HistoryTypes
<1>3. FileTypes' /\ HistoryTypes'
  <2>1. ASSUME Scan PROVE FileTypes' /\ HistoryTypes'
    BY <1>2, <2>1 DEF Scan, FileTypes, HistoryTypes, file, history
  <2>2. ASSUME NEW rows \in Replies,
               NEW count \in {AvailableCount, Unreadable}, NEW err \in BOOLEAN,
               Query(rows, count, err)
        PROVE  FileTypes' /\ HistoryTypes'
    <3>1. \/ CreditList(rows, count) = Unreadable
          \/ CreditList(rows, count) \subseteq Credits
      BY ListComplete
    <3> QED
      BY <1>2, <2>2, <3>1, QueryTyped
  <2>3. ASSUME Consume PROVE FileTypes' /\ HistoryTypes'
    <3>1. attempt # None
      BY <1>2, <2>3 DEF Consume, FileTypes
    <3> QED
      BY <1>2, <2>3, <3>1, BumpTyped, SucceedTyped, FailureTyped, UnwrittenTyped
      DEF Consume, BestEffort
  <2>4. ASSUME NEW doc \in Documents, Reconfigure(doc)
        PROVE  FileTypes' /\ HistoryTypes'
    BY <1>2, <2>4 DEF Reconfigure, FileTypes, HistoryTypes, file, history
  <2>5. ASSUME NEW c \in Credits, Spend(c) PROVE FileTypes' /\ HistoryTypes'
    BY <1>2, <2>5 DEF Spend, FileTypes, HistoryTypes, file, history
  <2>6. CASE UNCHANGED vars
    BY <1>2, <2>6 DEF vars, FileTypes, HistoryTypes, file, history
  <2> QED
    BY <1>2, <2>1, <2>2, <2>3, <2>4, <2>5, <2>6, ClearTyped, ElapseTyped
    DEF Next
<1>4. cfg' \in Configs
  <2>1. ASSUME NEW doc \in Documents, Reconfigure(doc) PROVE cfg' \in Configs
    BY <2>1, ParseTyped, DocumentsAssumption DEF Reconfigure
  <2> QED
    BY <2>1 DEF TypeOK, Next, vars, Scan, Query, Consume, ClearCooldown, Elapse,
       Spend
<1>5. wallet' \in [Credits -> {"available", "redeemed"}]
  <2>1. wallet \in [Credits -> {"available", "redeemed"}]
    BY DEF TypeOK
  <2>2. CASE Consume
    <3>1. attempt.credit \in Credits
      BY <1>2, <2>2 DEF FileTypes, Consume
    <3> QED
      BY <2>1, <2>2, <3>1 DEF Consume
  <2> QED
    BY <2>1, <2>2 DEF Next, vars, Scan, Query, ClearCooldown, Elapse,
       Reconfigure, Spend
<1> QED
  BY <1>1, <1>3, <1>4, <1>5
  DEF TypeOK, FileTypes, HistoryTypes, SpacedInv, WaitTypes, StagePassed

-----------------------------------------------------------------------------
\* The inductive invariant: the wait in force covers what is left of the one that
\* was last recorded, and the level of the next one, of an attempt or
\* a local clear, counts the failures.
THEOREM SpacedInvariance == Spec => []SpacedInv
<1>1. SpacedInv /\ [Next]_vars => SpacedInv'
  BY SpacedStep
<1> QED
  BY <1>1, InitSpaced, PTL DEF Spec

\* No request is made before the wait that was last recorded is over, provided a
\* Duration could hold it: for every configuration, however high the counts
\* rise and whichever writes fail (transientBackoff and backoffDuration,
\* engine.go 641 to 675, and their callers). The wait doubles with every failure
\* of an attempt or a local clear, and stays the base for the queries outside of
\* an attempt.
THEOREM SpacedHolds == Spec => []Spaced
<1>1. SpacedInv => Spaced
  BY DEF SpacedInv, Spaced, Requests, StagePassed, WaitCovers, CurrentWait,
     WaitTypes
<1> QED
  BY <1>1, SpacedInvariance, PTL

\* No attempt is made before the moment the web page announces (nextAllowedAt,
\* handler.go 367 to 379).
THEOREM NextAllowedHonestHolds == Spec => []NextAllowedHonest
<1>1. SpacedInv => NextAllowedHonest
  BY DEF SpacedInv, NextAllowedHonest, NextAllowed, StagePassed, WaitTypes, Most
<1> QED
  BY <1>1, SpacedInvariance, PTL
\* The types, with the bounds on the configuration, the waits and the levels,
\* whatever documents and replies there are.
THEOREM TypeCorrect == Spec => []TypeOK
<1>1. Init => TypeOK
  <2> SUFFICES ASSUME Init PROVE TypeOK
    OBVIOUS
  <2>1. cfg \in Configs
    BY ParseTyped, DocumentsAssumption DEF Init
  <2> QED
    BY <2>1, LevelAssumption DEF Init, TypeOK, TenMinutes, SixHours
<1>2. TypeOK /\ SpacedInv /\ [Next]_vars => TypeOK'
  BY TypesStep
<1> QED
  BY <1>1, <1>2, SpacedInvariance, PTL DEF Spec

\* An attempt is taken for redeemed, by what a list of credits does not have or
\* by the answer to the request, only when its credit is spent (resolvePending,
\* engine.go 267 to 331, on what Credits lets through, client.go 174 to 209).
THEOREM NoFalseSuccessHolds == Spec => NoFalseSuccess
<1> DEFINE A == attempt # None /\ clear = None /\ clear' # None
                  => wallet'[attempt.credit] # "available"
<1>1. TypeOK /\ SpacedInv /\ [Next]_vars => [A]_vars
  <2> SUFFICES ASSUME TypeOK, SpacedInv, Next,
                      attempt # None, clear = None, clear' # None
               PROVE  wallet'[attempt.credit] # "available"
    BY DEF vars
  <2>1. attempt.credit \in Credits
        /\ wallet \in [Credits -> {"available", "redeemed"}]
    BY DEF TypeOK
  <2>2. ASSUME NEW rows \in Replies,
               NEW count \in {AvailableCount, Unreadable}, NEW err \in BOOLEAN,
               Query(rows, count, err)
        PROVE  wallet'[attempt.credit] # "available"
    <3>1. Verify(CreditList(rows, count), err) /\ UNCHANGED wallet
      BY <2>2 DEF Query
    <3>2. /\ CreditList(rows, count) # Unreadable
          /\ attempt.credit \notin CreditList(rows, count)
      BY <3>1 DEF Verify, BestEffort, Bump, ApplyFailure, file
    <3> QED
      BY <2>1, <3>1, <3>2, ListComplete
  <2>3. CASE Consume
    BY <2>1, <2>3
    DEF Consume, Redeemed, Succeed, BestEffort, Bump, ApplyFailure, file
  <2>4. CASE ClearCooldown
    BY <2>4 DEF ClearCooldown, SpacedInv, StagePassed
  <2>5. CASE Scan \/ Elapse \/ (\E d \in Documents : Reconfigure(d))
             \/ (\E c \in Credits : Spend(c))
    BY <2>5 DEF Scan, Elapse, Reconfigure, Spend, file
  <2> QED
    BY <2>2, <2>3, <2>4, <2>5 DEF Next
<1> QED
  BY <1>1, TypeCorrect, SpacedInvariance, PTL DEF Spec, NoFalseSuccess
==============================================================================
