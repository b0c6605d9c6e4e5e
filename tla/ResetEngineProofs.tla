-------------------------- MODULE ResetEngineProofs --------------------------
(***************************************************************************)
(* What holds of the reset engine for any accounts, credits, keys, number  *)
(* of engines and bounds, with or without late requests.                   *)
(***************************************************************************)
EXTENDS ResetEngineProps, FiniteSetTheorems, WellFoundedInduction, TLAPS

-----------------------------------------------------------------------------
(* The values the operators of the model return.                           *)

\* A nonempty set of credits has an earliest one.
LEMMA EarliestExists ==
  ASSUME NEW S \in SUBSET Credits, S # {}
  PROVE  \E c \in S : \A d \in S : c <= d
<1>1. IsWellFoundedOn(OpToRel(<, Nat), Nat)
  BY NatLessThanWellFounded
<1>2. S \subseteq Nat
  BY CreditsAssumption
<1>3. \E c \in S : \A d \in S : ~(<<d, c>> \in OpToRel(<, Nat))
  BY <1>1, <1>2, WFMin
<1>4. \A c, d \in Nat : ~(<<d, c>> \in OpToRel(<, Nat)) => c <= d
  BY DEF OpToRel
<1> QED
  BY <1>2, <1>3, <1>4

\* firstUsableCredit returns a listed credit without a tombstone, or nothing.
LEMMA FirstUsableType ==
  ASSUME NEW listed \in SUBSET Credits, NEW tomb
  PROVE  /\ FirstUsable(listed, tomb) \in (listed \ tomb) \cup {None}
         /\ FirstUsable(listed, tomb) \in Credits \cup {None}
<1>1. CASE listed \subseteq tomb
  BY <1>1 DEF FirstUsable
<1>2. CASE ~(listed \subseteq tomb)
  <2>1. listed \ tomb \in SUBSET Credits /\ listed \ tomb # {}
    BY <1>2
  <2>2. \E c \in listed \ tomb : \A d \in listed \ tomb : c <= d
    BY <2>1, EarliestExists
  <2> QED
    BY <1>2, <2>2 DEF FirstUsable
<1> QED
  BY <1>1, <1>2

\* A fingerprint is one: the number of available credits is bounded by that of
\* all credits.
LEMMA FingerprintType ==
  ASSUME NEW a, NEW c \in Credits, NEW w \in 0..MaxWindow
  PROVE  Fingerprint(a, c, w) \in Fingerprints
<1>1. Available(a) \in SUBSET Credits
  BY DEF Available
<1>2. /\ IsFiniteSet(Available(a)) /\ IsFiniteSet(Credits)
      /\ Cardinality(Available(a)) <= Cardinality(Credits)
  BY <1>1, CreditsAssumption, FS_Subset
<1>3. Cardinality(Available(a)) \in Nat /\ Cardinality(Credits) \in Nat
  BY <1>2, FS_CardinalityType
<1> QED
  BY <1>2, <1>3 DEF Fingerprint, Fingerprints

LEMMA NoJobType == NoJob \in Jobs
BY BoundsAssumption DEF NoJob, Jobs

\* A job stays one when one of its fields is set to a value of its type.
LEMMA JobSetType ==
  ASSUME NEW j \in Jobs
  PROVE  /\ \A a \in Accounts \cup {None} : [j EXCEPT !.acct = a] \in Jobs
         /\ \A S \in SUBSET Accounts : [j EXCEPT !.todo = S] \in Jobs
         /\ \A p \in {"skip", "clear", "wait", "resolve", "fresh"} :
              [j EXCEPT !.plan = p] \in Jobs
         /\ \A S \in SUBSET Credits : [j EXCEPT !.tomb = S] \in Jobs
         /\ \A fp \in Fingerprints \cup {None} : [j EXCEPT !.avoid = fp] \in Jobs
         /\ \A b \in BOOLEAN : [j EXCEPT !.cold = b] \in Jobs
         /\ \A x \in Attempts \cup {None} : [j EXCEPT !.attempt = x] \in Jobs
         /\ \A code \in Codes \cup {"none", "error", "exhausted", "listed",
                                   "gone", "ok", "auth"} :
              [j EXCEPT !.code = code] \in Jobs
<1>1. \A a \in Accounts \cup {None} : [j EXCEPT !.acct = a] \in Jobs
  BY ZenonT(60) DEF Jobs
<1>2. \A S \in SUBSET Accounts : [j EXCEPT !.todo = S] \in Jobs
  BY ZenonT(60) DEF Jobs
<1>3. \A p \in {"skip", "clear", "wait", "resolve", "fresh"} :
        [j EXCEPT !.plan = p] \in Jobs
  BY ZenonT(60) DEF Jobs
<1>4. \A S \in SUBSET Credits : [j EXCEPT !.tomb = S] \in Jobs
  BY ZenonT(60) DEF Jobs
<1>5. \A fp \in Fingerprints \cup {None} : [j EXCEPT !.avoid = fp] \in Jobs
  BY ZenonT(60) DEF Jobs
<1>6. \A b \in BOOLEAN : [j EXCEPT !.cold = b] \in Jobs
  BY ZenonT(60) DEF Jobs
<1>7. \A x \in Attempts \cup {None} : [j EXCEPT !.attempt = x] \in Jobs
  BY ZenonT(60) DEF Jobs
<1>8. \A code \in Codes \cup {"none", "error", "exhausted", "listed", "gone",
                              "ok", "auth"} : [j EXCEPT !.code = code] \in Jobs
  BY ZenonT(60) DEF Jobs
<1> QED
  BY <1>1, <1>2, <1>3, <1>4, <1>5, <1>6, <1>7, <1>8

\* The local variables a scan is left with are a job.
LEMMA LeftType ==
  ASSUME NEW e \in Engines, job[e] \in Jobs
  PROVE  Left(e) \in Jobs
<1>1. job[e].todo \in SUBSET Accounts /\ job[e].off \in SUBSET Accounts
  BY DEF Jobs
<1>2. 0 \in 0..MaxWindow
  BY BoundsAssumption
<1> QED
  BY <1>1, <1>2 DEF Left, NoJob, Jobs

LEMMA AttemptingType ==
  ASSUME NEW e \in Engines, job[e] \in Jobs,
         NEW attempt \in Attempts \cup {None}
  PROVE  Attempting(e, attempt) \in Jobs
<1>1. Left(e) \in Jobs
  BY LeftType
<1>2. job[e].acct \in Accounts \cup {None}
  BY DEF Jobs
<1>3. [Left(e) EXCEPT !.acct = job[e].acct] \in Jobs
  BY <1>1, <1>2, JobSetType
<1>4. [[Left(e) EXCEPT !.acct = job[e].acct] EXCEPT !.attempt = attempt] \in Jobs
  BY <1>3, JobSetType
<1> QED
  BY <1>4 DEF Attempting

LEMMA NewAccountType == NewAccount \in AccountStates
BY FlagsAssumption DEF NewAccount, AccountStates

\* What markAmbiguous, applyFailure and completeSuccessfulReset write is an
\* account state; the verification count stays within its bound.
LEMMA SettledType ==
  ASSUME NEW s \in AccountStates, NEW attempt \in Attempts
  PROVE  /\ Ambiguous(s, attempt) \in AccountStates
         /\ \A t \in BOOLEAN : Failed(s, attempt, t) \in AccountStates
         /\ Succeeded(s, attempt) \in AccountStates
<1>1. attempt.fp \in Fingerprints /\ attempt.credit \in Credits
  BY DEF Attempts
<1>2. RunningBackoff(attempt.fp) \in Backoffs
  BY <1>1 DEF RunningBackoff, Backoffs
<1>3. Ambiguous(s, attempt) \in AccountStates
  <2>1. CASE s.pending # None /\ s.pending.key = attempt.key
    <3> DEFINE n == IF s.pending.count < MaxVerify THEN s.pending.count + 1
                    ELSE s.pending.count
    <3>1. s.pending \in Attempts
      BY <2>1 DEF AccountStates
    <3>2. n \in 0..MaxVerify
      BY <3>1, BoundsAssumption DEF Attempts
    <3>3. [s.pending EXCEPT !.count = n] \in Attempts
      BY <3>1, <3>2 DEF Attempts
    <3>4. Ambiguous(s, attempt) =
            [s EXCEPT !.pending = [s.pending EXCEPT !.count = n],
                      !.backoff = RunningBackoff(attempt.fp)]
      BY <2>1 DEF Ambiguous, AccountStates
    <3> QED
      BY <1>2, <3>3, <3>4 DEF AccountStates
  <2>2. CASE ~(s.pending # None /\ s.pending.key = attempt.key)
    BY <2>2 DEF Ambiguous
  <2> QED
    BY <2>1, <2>2
<1>4. \A t \in BOOLEAN : Failed(s, attempt, t) \in AccountStates
  BY <1>1, <1>2 DEF Failed, AccountStates
<1>5. Succeeded(s, attempt) \in AccountStates
  BY <1>1 DEF Succeeded, AccountStates
<1> QED
  BY <1>3, <1>4, <1>5

-----------------------------------------------------------------------------
(* Type correctness.                                                       *)

\* Every step of a scan moves one engine to a stage with a job that fits it.
LEMMA MoveType ==
  ASSUME TypeOK, NEW e \in Engines, NEW p \in Stages, NEW j \in Jobs,
         StageFits(p, j), Goto(e, p), SetJob(e, j), UNCHANGED life
  PROVE  EngineTypeOK'
<1>1. pc' = [pc EXCEPT ![e] = p] /\ job' = [job EXCEPT ![e] = j]
  BY DEF Goto, SetJob
<1>2. pc' \in [Engines -> Stages] /\ job' \in [Engines -> Jobs]
  BY <1>1 DEF TypeOK, EngineTypeOK
<1>3. \A x \in Engines : StageFits(pc'[x], job'[x])
  <2> SUFFICES ASSUME NEW x \in Engines
               PROVE  StageFits(pc'[x], job'[x])
    OBVIOUS
  <2>1. CASE x = e
    BY <1>1, <2>1 DEF TypeOK, EngineTypeOK
  <2>2. CASE x # e
    <3>1. pc'[x] = pc[x] /\ job'[x] = job[x]
      BY <1>1, <2>2 DEF TypeOK, EngineTypeOK
    <3>2. StageFits(pc[x], job[x])
      BY DEF TypeOK, EngineTypeOK
    <3> QED
      BY <3>1, <3>2
  <2> QED
    BY <2>1, <2>2
<1>4. (\A x \in Engines : StageFits(pc[x], job[x]))'
  BY <1>3 DEF StageFits
<1> QED
  BY <1>2, <1>4 DEF TypeOK, EngineTypeOK

LEMMA LeaveMoves ==
  ASSUME TypeOK, NEW e \in Engines, Leave(e), UNCHANGED life
  PROVE  EngineTypeOK'
<1>1. Left(e) \in Jobs
  BY LeftType DEF TypeOK, EngineTypeOK
<1>2. StageFits("next", Left(e)) /\ "next" \in Stages
  BY DEF StageFits, Stages
<1> QED
  BY <1>1, <1>2, MoveType DEF Leave

LEMMA UpdateType ==
  ASSUME TypeOK, NEW a \in Accounts, NEW s \in AccountStates, Update(a, s)
  PROVE  disk' \in [Accounts -> AccountStates]
BY DEF TypeOK, Update

LEMMA InitType == Init => TypeOK
<1> SUFFICES ASSUME Init PROVE TypeOK
  OBVIOUS
<1>1. disk \in [Accounts -> AccountStates]
  BY NewAccountType DEF Init
<1>2. EngineTypeOK
  BY NoJobType DEF Init, EngineTypeOK, StageFits, Stages
<1>3. /\ wallet \in [Accounts -> [Credits -> {"ungranted", "available", "gone"}
                                              \cup Keys]]
      /\ window \in [Accounts -> 0..MaxWindow]
  BY BoundsAssumption DEF Init
<1>4. mgmtCooling \in BOOLEAN /\ wire \subseteq Requests
  BY DEF Init
<1>5. /\ host \in [Accounts -> HostStatuses]
      /\ outcome \in [Keys -> {"unused", "open", "success", "failed"}]
      /\ owed \in [Accounts -> BOOLEAN]
  BY HostAssumption DEF Init
<1> QED
  BY <1>1, <1>2, <1>3, <1>4, <1>5 DEF TypeOK

LEMMA DiscoverType ==
  ASSUME TypeOK, NEW e \in Engines, Discover(e)
  PROVE  TypeOK'
<1> DEFINE j == [NoJob EXCEPT !.todo = {a \in Accounts : host[a] # "missing"},
                              !.off = {a \in Accounts : host[a] = "disabled"}]
<1>1. j \in Jobs
  BY NoJobType, ZenonT(60) DEF Jobs
<1>2. StageFits("reconcile", j) /\ "reconcile" \in Stages
  BY DEF StageFits, Stages
<1>3. EngineTypeOK'
  BY <1>1, <1>2, MoveType DEF Discover
<1> QED
  BY <1>3 DEF TypeOK, Discover, serverVars

LEMMA ReconcileType ==
  ASSUME TypeOK, NEW e \in Engines, Reconcile(e)
  PROVE  TypeOK'
<1>1. Reconciled(job[e].todo) \in [Accounts -> AccountStates]
  <2>1. \A s \in AccountStates, p \in {"present", "absent"} :
          [s EXCEPT !.present = p] \in AccountStates
    BY ZenonT(60) DEF AccountStates
  <2> QED
    BY <2>1 DEF TypeOK, Reconciled
<1>2. disk' \in [Accounts -> AccountStates]
  BY <1>1 DEF Reconcile, TypeOK
<1>3. EngineTypeOK'
  <2>1. CASE Goto(e, "next") /\ UNCHANGED job
    <3>1. SetJob(e, job[e]) /\ job[e] \in Jobs
      BY <2>1 DEF SetJob, TypeOK, EngineTypeOK
    <3>2. StageFits("next", job[e]) /\ "next" \in Stages
      BY DEF StageFits, Stages
    <3> QED
      BY <2>1, <3>1, <3>2, MoveType DEF Reconcile
  <2>2. CASE Goto(e, "idle") /\ SetJob(e, NoJob)
    <3>1. StageFits("idle", NoJob) /\ "idle" \in Stages
      BY DEF StageFits, Stages
    <3> QED
      BY <2>2, <3>1, NoJobType, MoveType DEF Reconcile
  <2> QED
    BY <2>1, <2>2 DEF Reconcile
<1> QED
  BY <1>2, <1>3 DEF TypeOK, Reconcile, serverVars

\* The plan "resolve" is made only for an attempt on file.
LEMMA PlanType ==
  ASSUME NEW s \in AccountStates, NEW disabled
  PROVE  /\ Plan(s, disabled) \in {"skip", "clear", "wait", "resolve", "fresh"}
         /\ Plan(s, disabled) = "resolve" => s.pending \in Attempts
BY DEF Plan, AccountStates

LEMMA LoadAccountType ==
  ASSUME TypeOK, NEW e \in Engines, LoadAccount(e)
  PROVE  TypeOK'
<1> SUFFICES EngineTypeOK'
  BY DEF TypeOK, LoadAccount, serverVars
<1> PICK a \in job[e].todo :
      LET rest == [job[e] EXCEPT !.todo = @ \ {a}]
          s == disk[a]
          plan == Plan(s, a \in job[e].off)
      IN \/ /\ s.present # "unknown"
            /\ Goto(e, "usage")
            /\ SetJob(e, [rest EXCEPT
                 !.acct = a,
                 !.plan = plan,
                 !.tomb = s.tomb,
                 !.avoid = IF s.backoff = None THEN None ELSE s.backoff.fp,
                 !.cold = s.cooling,
                 !.attempt = IF plan = "resolve" THEN s.pending ELSE None])
         \/ SetJob(e, rest) /\ UNCHANGED pc
  BY DEF LoadAccount
<1> DEFINE rest == [job[e] EXCEPT !.todo = @ \ {a}]
           s == disk[a]
           plan == Plan(s, a \in job[e].off)
           avoid == IF s.backoff = None THEN None ELSE s.backoff.fp
           attempt == IF plan = "resolve" THEN s.pending ELSE None
           first == [rest EXCEPT !.acct = a, !.plan = plan, !.tomb = s.tomb]
           full == [rest EXCEPT !.acct = a, !.plan = plan, !.tomb = s.tomb,
                                !.avoid = avoid, !.cold = s.cooling,
                                !.attempt = attempt]
<1>1. job[e] \in Jobs /\ a \in Accounts /\ s \in AccountStates
      /\ job[e].todo \in SUBSET Accounts
  BY DEF TypeOK, EngineTypeOK, Jobs
<1>2. /\ s.tomb \in SUBSET Credits /\ s.cooling \in BOOLEAN
      /\ avoid \in Fingerprints \cup {None}
  BY <1>1 DEF AccountStates, Backoffs
<1>3. /\ plan \in {"skip", "clear", "wait", "resolve", "fresh"}
      /\ plan = "resolve" => s.pending \in Attempts
  BY <1>1, PlanType
<1>4. attempt \in Attempts \cup {None}
  BY <1>3
<1>u. \/ SetJob(e, full) /\ Goto(e, "usage")
      \/ SetJob(e, rest) /\ UNCHANGED pc
  OBVIOUS
<1>v. UNCHANGED life /\ pc[e] = "next"
  BY DEF LoadAccount
<1> HIDE DEF s, plan, avoid, attempt
<1>5. rest \in Jobs
  <2>1. job[e].todo \ {a} \in SUBSET Accounts
    BY <1>1
  <2> QED
    BY <1>1, <2>1, JobSetType
<1>6. CASE SetJob(e, full) /\ Goto(e, "usage")
  <2> HIDE DEF rest
  <2>1. first \in Jobs
    <3>0. [rest EXCEPT !.acct = a] \in Jobs
      BY <1>1, <1>5, JobSetType
    <3>1. [[rest EXCEPT !.acct = a] EXCEPT !.plan = plan] \in Jobs
      BY <1>3, <3>0, JobSetType
    <3> QED
      BY <1>2, <3>1, JobSetType DEF first
  <2>2. [[first EXCEPT !.avoid = avoid, !.cold = s.cooling]
           EXCEPT !.attempt = attempt] \in Jobs
    <3>0. [first EXCEPT !.avoid = avoid] \in Jobs
      BY <1>2, <2>1, JobSetType
    <3>1. [[first EXCEPT !.avoid = avoid] EXCEPT !.cold = s.cooling] \in Jobs
      BY <1>2, <3>0, JobSetType
    <3> QED
      BY <1>4, <3>1, JobSetType
  <2>3. full = [[first EXCEPT !.avoid = avoid, !.cold = s.cooling]
                  EXCEPT !.attempt = attempt]
    OBVIOUS
  <2>4. full \in Jobs
    BY <2>2, <2>3
  <2>5. full.acct = a /\ full.plan = plan /\ full.attempt = attempt
    BY <1>5 DEF Jobs
  <2>6. StageFits("usage", full) /\ "usage" \in Stages
    BY <1>1, <1>3, <2>5 DEF StageFits, Stages, attempt
  <2> HIDE DEF full
  <2> QED
    BY <1>6, <1>v, <2>4, <2>6, MoveType
<1>7. CASE SetJob(e, rest) /\ UNCHANGED pc
  <2>1. Goto(e, "next") /\ pc[e] = "next"
    BY <1>7, <1>v DEF Goto, TypeOK, EngineTypeOK
  <2>2. StageFits("next", rest) /\ "next" \in Stages
    BY DEF StageFits, Stages
  <2> HIDE DEF rest
  <2> QED
    BY <1>5, <1>7, <1>v, <2>1, <2>2, MoveType
<1> QED
  BY <1>6, <1>7, <1>u

\* Setting one local variable of a job leaves a job, and its account and attempt
\* as they were.
LEMMA JobFieldTypes ==
  ASSUME NEW j \in Jobs
  PROVE  /\ \A code \in Codes \cup {"none", "error", "exhausted", "listed",
                                   "gone", "ok", "auth"} :
              /\ [j EXCEPT !.code = code] \in Jobs
              /\ [j EXCEPT !.code = code].acct = j.acct
              /\ [j EXCEPT !.code = code].attempt = j.attempt
         /\ \A c \in Credits :
              /\ [j EXCEPT !.credit = c] \in Jobs
              /\ [j EXCEPT !.credit = c].acct = j.acct
              /\ [j EXCEPT !.credit = c].credit = c
         /\ \A fp \in Fingerprints :
              /\ [j EXCEPT !.fp = fp] \in Jobs
              /\ [j EXCEPT !.fp = fp].acct = j.acct
              /\ [j EXCEPT !.fp = fp].credit = j.credit
              /\ [j EXCEPT !.fp = fp].fp = fp
         /\ \A level \in Levels \cup {"failed"}, w \in 0..MaxWindow :
              /\ [j EXCEPT !.usage = level, !.window = w] \in Jobs
              /\ [j EXCEPT !.usage = level, !.window = w].acct = j.acct
         /\ \A level \in Levels :
              /\ RetryJob(j, level) \in Jobs
              /\ RetryJob(j, level).acct = j.acct
              /\ RetryJob(j, level).attempt = j.attempt
         /\ [j EXCEPT !.cold = TRUE] \in Jobs
         /\ \A p \in Stages :
              StageFits(p, [j EXCEPT !.cold = TRUE]) <=> StageFits(p, j)
<1>1. \A code \in Codes \cup {"none", "error", "exhausted", "listed", "gone",
                              "ok", "auth"} : [j EXCEPT !.code = code] \in Jobs
  BY JobSetType
<1>2. \A c \in Credits : [j EXCEPT !.credit = c] \in Jobs
  BY ZenonT(60) DEF Jobs
<1>3. \A fp \in Fingerprints : [j EXCEPT !.fp = fp] \in Jobs
  BY ZenonT(60) DEF Jobs
<1>4. \A level \in Levels \cup {"failed"}, w \in 0..MaxWindow :
        [j EXCEPT !.usage = level, !.window = w] \in Jobs
  BY ZenonT(60) DEF Jobs
<1>5. \A level \in Levels : RetryJob(j, level) \in Jobs
  <2>1. \A level \in Levels : [j EXCEPT !.usage = level] \in Jobs
    BY ZenonT(60) DEF Jobs
  <2>2. \A k \in Jobs : [k EXCEPT !.code = "none"] \in Jobs
    BY JobSetType
  <2> QED
    BY <2>1, <2>2 DEF RetryJob
<1>6. [j EXCEPT !.cold = TRUE] \in Jobs
  BY JobSetType
<1>7. /\ \A c : [j EXCEPT !.code = c].acct = j.acct
      /\ \A c : [j EXCEPT !.code = c].attempt = j.attempt
      /\ \A c : [j EXCEPT !.credit = c].acct = j.acct
      /\ \A c : [j EXCEPT !.credit = c].credit = c
      /\ \A fp : [j EXCEPT !.fp = fp].acct = j.acct
      /\ \A fp : [j EXCEPT !.fp = fp].credit = j.credit
      /\ \A fp : [j EXCEPT !.fp = fp].fp = fp
      /\ \A l, w : [j EXCEPT !.usage = l, !.window = w].acct = j.acct
      /\ \A l : RetryJob(j, l).acct = j.acct
      /\ \A l : RetryJob(j, l).attempt = j.attempt
  BY DEF Jobs, RetryJob
<1>8. \A p \in Stages :
        StageFits(p, [j EXCEPT !.cold = TRUE]) <=> StageFits(p, j)
  BY DEF Jobs, StageFits
<1> QED
  BY <1>1, <1>2, <1>3, <1>4, <1>5, <1>6, <1>7, <1>8

LEMMA FinishScanType ==
  ASSUME TypeOK, NEW e \in Engines, FinishScan(e)
  PROVE  TypeOK'
<1>1. StageFits("idle", NoJob) /\ "idle" \in Stages
  BY DEF StageFits, Stages
<1>2. EngineTypeOK'
  BY <1>1, NoJobType, MoveType DEF FinishScan
<1> QED
  BY <1>2 DEF TypeOK, FinishScan, serverVars

\* The account a scan is at, and its state.
LEMMA AtAccount ==
  ASSUME TypeOK, NEW e \in Engines,
         pc[e] \notin {"idle", "reconcile", "next"}
  PROVE  /\ job[e] \in Jobs
         /\ job[e].acct \in Accounts
         /\ disk[job[e].acct] \in AccountStates
BY DEF TypeOK, EngineTypeOK, StageFits

LEMMA UsageReplyType ==
  ASSUME TypeOK, NEW e \in Engines, UsageReply(e)
  PROVE  TypeOK'
<1> SUFFICES EngineTypeOK'
  BY DEF TypeOK, UsageReply, serverVars
<1>1. pc[e] = "usage" /\ UNCHANGED life
  BY DEF UsageReply
<1>2. job[e] \in Jobs /\ job[e].acct \in Accounts
  BY <1>1, AtAccount
<1>3. job[e].plan = "resolve" => job[e].attempt \in Attempts
  BY <1>1 DEF TypeOK, EngineTypeOK, StageFits
<1>4. CASE Leave(e)
  BY <1>1, <1>4, LeaveMoves
<1>5. CASE Goto(e, "clear") /\ SetJob(e, Attempting(e, None))
  <2>1. Attempting(e, None) \in Jobs
    BY <1>2, AttemptingType
  <2>2. Attempting(e, None).acct = job[e].acct
    BY DEF Attempting, Left, NoJob
  <2>3. StageFits("clear", Attempting(e, None)) /\ "clear" \in Stages
    BY <1>2, <2>2 DEF StageFits, Stages
  <2> QED
    BY <1>1, <1>5, <2>1, <2>3, MoveType
<1>6. CASE /\ job[e].plan = "resolve" /\ Goto(e, "vcredits")
           /\ SetJob(e, Attempting(e, job[e].attempt))
  <2> DEFINE j == Attempting(e, job[e].attempt)
  <2>1. j \in Jobs
    BY <1>2, <1>3, <1>6, AttemptingType
  <2>2. j.acct = job[e].acct /\ j.attempt = job[e].attempt
    BY DEF Attempting, Left, NoJob
  <2>3. StageFits("vcredits", j) /\ "vcredits" \in Stages
    BY <1>2, <1>3, <1>6, <2>2 DEF StageFits, Stages
  <2> QED
    BY <1>1, <1>6, <2>1, <2>3, MoveType
<1>7. ASSUME NEW level \in Levels \cup {"failed"}, Goto(e, "credits"),
             SetJob(e, [job[e] EXCEPT !.usage = level,
                                      !.window = window[job[e].acct]])
      PROVE  EngineTypeOK'
  <2> DEFINE j == [job[e] EXCEPT !.usage = level,
                                 !.window = window[job[e].acct]]
  <2>1. window[job[e].acct] \in 0..MaxWindow
    BY <1>2 DEF TypeOK
  <2>0. \A l \in Levels \cup {"failed"}, w \in 0..MaxWindow :
          /\ [job[e] EXCEPT !.usage = l, !.window = w] \in Jobs
          /\ [job[e] EXCEPT !.usage = l, !.window = w].acct = job[e].acct
    BY <1>2, JobFieldTypes
  <2>2. j \in Jobs /\ j.acct = job[e].acct
    BY <2>0, <2>1
  <2>3. StageFits("credits", j) /\ "credits" \in Stages
    BY <1>2, <2>2 DEF StageFits, Stages
  <2>4. SetJob(e, j)
    BY <1>7
  <2> HIDE DEF j
  <2> QED
    BY <1>1, <1>7, <2>2, <2>3, <2>4, MoveType
<1>8. \/ Leave(e)
      \/ Goto(e, "clear") /\ SetJob(e, Attempting(e, None))
      \/ /\ job[e].plan = "resolve" /\ Goto(e, "vcredits")
         /\ SetJob(e, Attempting(e, job[e].attempt))
      \/ \E level \in Levels \cup {"failed"} :
           /\ Goto(e, "credits")
           /\ SetJob(e, [job[e] EXCEPT !.usage = level,
                                       !.window = window[job[e].acct]])
  <2>1. job[e].plan \in {"skip", "clear", "wait", "resolve", "fresh"}
    BY <1>2 DEF Jobs
  <2>2. CASE job[e].plan = "skip"
    BY <2>2 DEF UsageReply
  <2>3. CASE job[e].plan = "clear" \/ job[e].plan = "wait"
    BY <2>3 DEF UsageReply
  <2>4. CASE job[e].plan = "resolve"
    BY <2>4 DEF UsageReply
  <2>5. CASE job[e].plan = "fresh"
    BY <2>5 DEF UsageReply
  <2> QED
    BY <2>1, <2>2, <2>3, <2>4, <2>5
<1> QED
  BY <1>4, <1>5, <1>6, <1>7, <1>8

\* A transient failure, a step that cannot go on: the account keeps its state
\* but for the backoff.
LEMMA TransientFailureType ==
  ASSUME TypeOK, NEW e \in Engines, TransientFailure(e), UNCHANGED life,
         pc[e] \notin {"idle", "reconcile", "next"}
  PROVE  disk' \in [Accounts -> AccountStates] /\ EngineTypeOK'
<1> DEFINE a == job[e].acct
           s == [disk[a] EXCEPT !.backoff = RunningBackoff(None)]
<1>1. a \in Accounts /\ disk[a] \in AccountStates
  BY AtAccount
<1>2. RunningBackoff(None) \in Backoffs
  BY DEF RunningBackoff, Backoffs
<1>3. s \in AccountStates
  BY <1>1, <1>2, ZenonT(60) DEF AccountStates
<1>4. Update(a, s)
  BY DEF TransientFailure
<1>5. EngineTypeOK'
  BY LeaveMoves DEF TransientFailure
<1> HIDE DEF a, s
<1> QED
  BY <1>1, <1>3, <1>4, <1>5, UpdateType

LEMMA CreditsReplyType ==
  ASSUME TypeOK, NEW e \in Engines, CreditsReply(e)
  PROVE  TypeOK'
<1> SUFFICES disk' \in [Accounts -> AccountStates] /\ EngineTypeOK'
  BY DEF TypeOK, CreditsReply, serverVars
<1>1. pc[e] = "credits" /\ UNCHANGED life
  BY DEF CreditsReply
<1>2. job[e] \in Jobs /\ job[e].acct \in Accounts
  BY <1>1, AtAccount
<1> DEFINE c == FirstUsable(Available(job[e].acct), job[e].tomb)
           j == [job[e] EXCEPT !.credit = c]
<1>3. c \in Credits \cup {None}
  BY FirstUsableType DEF Available
<1>4. \A usage, age : Decision(c, usage, age) = "recheck" => c # None
  BY DEF Decision
<1>5. CASE TransientFailure(e)
  BY <1>1, <1>5, TransientFailureType
<1>6. CASE Leave(e) /\ UNCHANGED disk
  BY <1>1, <1>6, LeaveMoves DEF TypeOK
<1>7. CASE c # None /\ Goto(e, "recheck") /\ SetJob(e, j) /\ UNCHANGED disk
  <2>1. j \in Jobs /\ j.acct = job[e].acct /\ j.credit = c
    BY <1>2, <1>3, <1>7, JobFieldTypes
  <2>2. StageFits("recheck", j) /\ "recheck" \in Stages
    BY <1>2, <1>3, <1>7, <2>1 DEF StageFits, Stages
  <2> HIDE DEF j
  <2>3. EngineTypeOK'
    BY <1>1, <1>7, <2>1, <2>2, MoveType
  <2> QED
    BY <1>7, <2>3 DEF TypeOK
<1>8. \/ TransientFailure(e)
      \/ Leave(e) /\ UNCHANGED disk
      \/ c # None /\ Goto(e, "recheck") /\ SetJob(e, j) /\ UNCHANGED disk
  <2> HIDE DEF c
  <2>1. \/ TransientFailure(e)
        \/ \E age \in Ages :
             LET decision == Decision(c, job[e].usage, age) IN
             \/ decision = "return" /\ Leave(e) /\ UNCHANGED disk
             \/ decision = "transient" /\ TransientFailure(e)
             \/ /\ decision = "recheck" /\ Goto(e, "recheck")
                /\ SetJob(e, j) /\ UNCHANGED disk
    BY DEF CreditsReply, c
  <2> QED
    BY <1>4, <2>1
<1> QED
  BY <1>5, <1>6, <1>7, <1>8

LEMMA RecheckReplyType ==
  ASSUME TypeOK, NEW e \in Engines, RecheckReply(e)
  PROVE  TypeOK'
<1> SUFFICES disk' \in [Accounts -> AccountStates] /\ EngineTypeOK'
  BY DEF TypeOK, RecheckReply, serverVars
<1>1. pc[e] = "recheck" /\ UNCHANGED life
  BY DEF RecheckReply
<1>2. /\ job[e] \in Jobs /\ job[e].acct \in Accounts
      /\ job[e].credit \in Credits /\ job[e].window \in 0..MaxWindow
  BY <1>1 DEF TypeOK, EngineTypeOK, StageFits, Jobs
<1> DEFINE fp == Fingerprint(job[e].acct, job[e].credit, job[e].window)
           j == [job[e] EXCEPT !.fp = fp]
<1>3. fp \in Fingerprints
  BY <1>2, FingerprintType
<1>4. CASE TransientFailure(e)
  BY <1>1, <1>4, TransientFailureType
<1>5. CASE Leave(e) /\ UNCHANGED disk
  BY <1>1, <1>5, LeaveMoves DEF TypeOK
<1>6. CASE Goto(e, "persist") /\ SetJob(e, j) /\ UNCHANGED disk
  <2> HIDE DEF fp
  <2>1. /\ j \in Jobs /\ j.acct = job[e].acct
        /\ j.credit = job[e].credit /\ j.fp = fp
    BY <1>2, <1>3, JobFieldTypes
  <2> HIDE DEF j
  <2>2. StageFits("persist", j) /\ "persist" \in Stages
    BY <1>2, <1>3, <2>1 DEF StageFits, Stages
  <2>3. EngineTypeOK'
    BY <1>1, <1>6, <2>1, <2>2, MoveType
  <2> QED
    BY <1>6, <2>3 DEF TypeOK
<1> QED
  BY <1>4, <1>5, <1>6 DEF RecheckReply

LEMMA PersistAttemptType ==
  ASSUME TypeOK, NEW e \in Engines, PersistAttempt(e)
  PROVE  TypeOK'
<1>1. pc[e] = "persist" /\ UNCHANGED life
  BY DEF PersistAttempt
<1>2. /\ job[e] \in Jobs /\ job[e].acct \in Accounts
      /\ job[e].credit \in Credits /\ job[e].fp \in Fingerprints
  BY <1>1 DEF TypeOK, EngineTypeOK, StageFits
<1> PICK k \in Keys :
      LET attempt == [key |-> k, credit |-> job[e].credit, fp |-> job[e].fp,
                      count |-> 0]
      IN /\ outcome[k] = "unused"
         /\ disk' = [disk EXCEPT ![job[e].acct].pending = attempt]
         /\ outcome' = [outcome EXCEPT ![k] = "open"]
         /\ \/ /\ Goto(e, "consume")
               /\ SetJob(e, Attempting(e, attempt))
            \/ Leave(e)
  BY DEF PersistAttempt
<1> DEFINE attempt == [key |-> k, credit |-> job[e].credit, fp |-> job[e].fp,
                       count |-> 0]
           j == Attempting(e, attempt)
<1>3. attempt \in Attempts
  BY <1>2, BoundsAssumption DEF Attempts
<1>4. disk' = [disk EXCEPT ![job[e].acct].pending = attempt]
      /\ outcome' = [outcome EXCEPT ![k] = "open"]
  OBVIOUS
<1>5. \/ Goto(e, "consume") /\ SetJob(e, j)
      \/ Leave(e)
  OBVIOUS
<1> HIDE DEF attempt
<1>6. EngineTypeOK'
  <2>1. CASE Goto(e, "consume") /\ SetJob(e, j)
    <3>1. j \in Jobs
      BY <1>2, <1>3, AttemptingType
    <3>2. j.acct = job[e].acct /\ j.attempt = attempt
      BY DEF Attempting, Left, NoJob
    <3> HIDE DEF j
    <3>3. StageFits("consume", j) /\ "consume" \in Stages
      BY <1>2, <1>3, <3>2 DEF StageFits, Stages
    <3> QED
      BY <1>1, <2>1, <3>1, <3>3, MoveType
  <2>2. CASE Leave(e)
    BY <1>1, <2>2, LeaveMoves
  <2> QED
    BY <1>5, <2>1, <2>2
<1>7. disk' \in [Accounts -> AccountStates]
  <2>1. \A s \in AccountStates :
          [s EXCEPT !.pending = attempt] \in AccountStates
    BY <1>3, ZenonT(60) DEF AccountStates
  <2> QED
    BY <1>2, <1>4, <2>1 DEF TypeOK
<1>8. outcome' \in [Keys -> {"unused", "open", "success", "failed"}]
  BY <1>4 DEF TypeOK
<1>9. UNCHANGED <<mgmtCooling, host, wallet, window, wire, owed>>
  BY DEF PersistAttempt, serverVars
<1> QED
  BY <1>6, <1>7, <1>8, <1>9 DEF TypeOK

LEMMA PersistRefusedType ==
  ASSUME TypeOK, NEW e \in Engines, PersistRefused(e)
  PROVE  TypeOK'
<1>1. EngineTypeOK'
  <2>1. Leave(e) /\ UNCHANGED life
    BY DEF PersistRefused
  <2> QED
    BY <2>1, LeaveMoves
<1> QED
  BY <1>1 DEF TypeOK, PersistRefused, serverVars

\* The stage changes and at most the code with it.
LEMMA CodeMoves ==
  ASSUME TypeOK, NEW e \in Engines, NEW p \in Stages, StageFits(p, job[e]),
         Goto(e, p), UNCHANGED life,
         \/ UNCHANGED job
         \/ \E code \in Codes \cup {"none", "error", "exhausted", "listed",
                                    "gone", "ok", "auth"} :
              SetJob(e, [job[e] EXCEPT !.code = code])
  PROVE  EngineTypeOK'
<1>1. job[e] \in Jobs
  BY DEF TypeOK, EngineTypeOK
<1>2. CASE UNCHANGED job
  <2>1. SetJob(e, job[e])
    BY <1>2 DEF SetJob, TypeOK, EngineTypeOK
  <2> QED
    BY <1>1, <2>1, MoveType
<1>3. ASSUME NEW code \in Codes \cup {"none", "error", "exhausted", "listed",
                                      "gone", "ok", "auth"},
             SetJob(e, [job[e] EXCEPT !.code = code])
      PROVE  EngineTypeOK'
  <2> DEFINE j == [job[e] EXCEPT !.code = code]
  <2>1. j \in Jobs
    BY <1>1, JobFieldTypes
  <2>2. /\ j.acct = job[e].acct /\ j.plan = job[e].plan
        /\ j.attempt = job[e].attempt
        /\ j.credit = job[e].credit /\ j.fp = job[e].fp
    BY <1>1 DEF Jobs
  <2>3. SetJob(e, j)
    BY <1>3
  <2> HIDE DEF j
  <2>4. StageFits(p, j)
    BY <2>2 DEF StageFits
  <2> QED
    BY <2>1, <2>3, <2>4, MoveType
<1> QED
  BY <1>2, <1>3

\* The account and the attempt of an attempt under way.
LEMMA AtAttempt ==
  ASSUME TypeOK, NEW e \in Engines,
         pc[e] \in {"consume", "await", "settle", "vcredits", "vusage",
                    "complete"}
  PROVE  /\ job[e] \in Jobs /\ job[e].acct \in Accounts
         /\ job[e].attempt \in Attempts
         /\ disk[job[e].acct] \in AccountStates
BY DEF TypeOK, EngineTypeOK, StageFits

LEMMA SendConsumeType ==
  ASSUME TypeOK, NEW e \in Engines, SendConsume(e)
  PROVE  TypeOK'
<1>1. pc[e] = "consume" /\ Goto(e, "await") /\ UNCHANGED <<life, job>>
  BY DEF SendConsume
<1>2. job[e].acct \in Accounts /\ job[e].attempt \in Attempts
  BY <1>1, AtAttempt
<1>3. EngineTypeOK'
  <2>1. StageFits("await", job[e]) /\ "await" \in Stages
    BY <1>2 DEF StageFits, Stages
  <2> QED
    BY <1>1, <2>1, CodeMoves
<1>4. wire' \subseteq Requests
  BY <1>2 DEF SendConsume, TypeOK, Requests, Attempts
<1> QED
  BY <1>3, <1>4 DEF TypeOK, SendConsume

LEMMA SendFailsType ==
  ASSUME TypeOK, NEW e \in Engines, SendFails(e)
  PROVE  TypeOK'
<1>1. /\ pc[e] = "consume" /\ Goto(e, "settle") /\ UNCHANGED life
      /\ SetJob(e, [job[e] EXCEPT !.code = "error"])
  BY DEF SendFails
<1>2. EngineTypeOK'
  <2>1. StageFits("settle", job[e]) /\ "settle" \in Stages
    BY <1>1, AtAttempt DEF StageFits, Stages
  <2> QED
    BY <1>1, <2>1, CodeMoves
<1> QED
  BY <1>2 DEF TypeOK, SendFails, serverVars

LEMMA GiveUpType ==
  ASSUME TypeOK, NEW e \in Engines, GiveUp(e)
  PROVE  TypeOK'
<1>1. /\ pc[e] = "await" /\ Goto(e, "settle") /\ UNCHANGED life
      /\ SetJob(e, [job[e] EXCEPT !.code = "error"])
  BY DEF GiveUp
<1>2. EngineTypeOK'
  <2>1. StageFits("settle", job[e]) /\ "settle" \in Stages
    BY <1>1, AtAttempt DEF StageFits, Stages
  <2> QED
    BY <1>1, <2>1, CodeMoves
<1>3. wire' \subseteq wire
  BY DEF GiveUp
<1> QED
  BY <1>2, <1>3 DEF TypeOK, GiveUp

LEMMA ExecuteType ==
  ASSUME TypeOK, NEW m \in wire, Execute(m)
  PROVE  TypeOK'
<1>1. m \in Requests
  BY DEF TypeOK
<1> PICK code \in Answers(m) :
      /\ wallet' = IF code = "reset"
                   THEN [wallet EXCEPT ![m.acct][m.credit] = m.key]
                   ELSE wallet
      /\ \/ UNCHANGED <<pc, job>>
         \/ /\ pc[m.eng] = "await" /\ job[m.eng].attempt.key = m.key
            /\ ~Cancelled(m.eng)
            /\ IF code \in {"reset", "already_redeemed"}
               THEN Goto(m.eng, "complete") /\ UNCHANGED job
               ELSE /\ Goto(m.eng, "settle")
                    /\ SetJob(m.eng, [job[m.eng] EXCEPT !.code = code])
  BY DEF Execute
<1>2. UNCHANGED life /\ wire' \subseteq wire
  BY DEF Execute
<1>3. /\ code \in Codes
      /\ m.eng \in Engines /\ m.acct \in Accounts /\ m.credit \in Credits
      /\ m.key \in Keys
  BY <1>1 DEF Answers, Codes, Requests
<1>4. EngineTypeOK'
  <2>1. CASE UNCHANGED <<pc, job>>
    BY <1>2, <2>1 DEF TypeOK, EngineTypeOK, StageFits
  <2>2. CASE /\ pc[m.eng] = "await"
             /\ Goto(m.eng, "complete") /\ UNCHANGED job
    <3>1. StageFits("complete", job[m.eng]) /\ "complete" \in Stages
      BY <1>3, <2>2, AtAttempt DEF StageFits, Stages
    <3> QED
      BY <1>2, <1>3, <2>2, <3>1, CodeMoves
  <2>3. CASE /\ pc[m.eng] = "await" /\ Goto(m.eng, "settle")
             /\ SetJob(m.eng, [job[m.eng] EXCEPT !.code = code])
    <3>1. StageFits("settle", job[m.eng]) /\ "settle" \in Stages
      BY <1>3, <2>3, AtAttempt DEF StageFits, Stages
    <3> QED
      BY <1>2, <1>3, <2>3, <3>1, CodeMoves
  <2> QED
    BY <2>1, <2>2, <2>3
<1>5. wallet' \in
        [Accounts -> [Credits -> {"ungranted", "available", "gone"} \cup Keys]]
  BY <1>3 DEF TypeOK
<1> QED
  BY <1>2, <1>4, <1>5 DEF TypeOK, Execute

\* markAmbiguous or bumpPendingVerification, and return.
LEMMA BumpType ==
  ASSUME TypeOK, NEW e \in Engines, Bump(e), UNCHANGED life,
         pc[e] \in {"settle", "vcredits", "vusage"}
  PROVE  disk' \in [Accounts -> AccountStates] /\ EngineTypeOK'
<1> DEFINE a == job[e].acct
           s == Ambiguous(disk[a], job[e].attempt)
<1>1. a \in Accounts /\ s \in AccountStates
  BY AtAttempt, SettledType
<1>2. Update(a, s) /\ Leave(e)
  BY DEF Bump
<1> HIDE DEF a, s
<1>3. EngineTypeOK'
  BY <1>2, LeaveMoves
<1> QED
  BY <1>1, <1>2, <1>3, UpdateType

LEMMA MarkAmbiguousType ==
  ASSUME TypeOK, NEW e \in Engines, MarkAmbiguous(e)
  PROVE  TypeOK'
<1>1. pc[e] = "settle" /\ Bump(e) /\ UNCHANGED life
  BY DEF MarkAmbiguous, Bump
<1>2. disk' \in [Accounts -> AccountStates] /\ EngineTypeOK'
  BY <1>1, BumpType
<1> QED
  BY <1>2 DEF TypeOK, MarkAmbiguous, serverVars

LEMMA ApplyFailureType ==
  ASSUME TypeOK, NEW e \in Engines, ApplyFailure(e)
  PROVE  TypeOK'
<1> DEFINE a == job[e].acct
           t == job[e].code = "no_credit"
           s == Failed(disk[a], job[e].attempt, t)
           open == disk[a].pending
<1>1. pc[e] = "settle" /\ Leave(e) /\ UNCHANGED life
  BY DEF ApplyFailure
<1>2. a \in Accounts /\ disk[a] \in AccountStates /\ s \in AccountStates
  BY <1>1, AtAttempt, SettledType
<1>3. disk' \in [Accounts -> AccountStates]
  <2>1. disk' = [disk EXCEPT ![a] = s] \/ disk' = disk
    BY DEF ApplyFailure
  <2> HIDE DEF a, s
  <2> QED
    BY <1>2, <2>1 DEF TypeOK
<1>4. outcome' \in [Keys -> {"unused", "open", "success", "failed"}]
  <2>1. open = None \/ open.key \in Keys
    BY <1>2 DEF AccountStates, Attempts
  <2>2. outcome' = outcome \/ outcome' = [outcome EXCEPT ![open.key] = "failed"]
    BY DEF ApplyFailure
  <2> QED
    BY <2>2 DEF TypeOK
<1>5. EngineTypeOK'
  BY <1>1, LeaveMoves
<1> QED
  BY <1>3, <1>4, <1>5 DEF TypeOK, ApplyFailure, serverVars

LEMMA VerifyCreditsType ==
  ASSUME TypeOK, NEW e \in Engines, VerifyCredits(e)
  PROVE  TypeOK'
<1> SUFFICES disk' \in [Accounts -> AccountStates] /\ EngineTypeOK'
  BY DEF TypeOK, VerifyCredits, serverVars
<1>1. pc[e] = "vcredits" /\ UNCHANGED life
  BY DEF VerifyCredits
<1>2. CASE Bump(e)
  BY <1>1, <1>2, BumpType
<1>3. CASE /\ Goto(e, "vusage") /\ UNCHANGED disk
           /\ SetJob(e, [job[e] EXCEPT !.code =
                IF job[e].attempt.credit \in Available(job[e].acct)
                THEN "listed" ELSE "gone"])
  <2>1. StageFits("vusage", job[e]) /\ "vusage" \in Stages
    BY <1>1, AtAttempt DEF StageFits, Stages
  <2>2. \E code \in {"listed", "gone"} :
          SetJob(e, [job[e] EXCEPT !.code = code])
    BY <1>3
  <2>3. EngineTypeOK'
    BY <1>1, <1>3, <2>1, <2>2, CodeMoves
  <2> QED
    BY <1>3, <2>3 DEF TypeOK
<1> QED
  BY <1>2, <1>3 DEF VerifyCredits

LEMMA VerifyUsageType ==
  ASSUME TypeOK, NEW e \in Engines, VerifyUsage(e)
  PROVE  TypeOK'
<1> SUFFICES disk' \in [Accounts -> AccountStates] /\ EngineTypeOK'
  BY DEF TypeOK, VerifyUsage, serverVars
<1>1. pc[e] = "vusage" /\ UNCHANGED life
  BY DEF VerifyUsage
<1>2. /\ job[e] \in Jobs /\ job[e].acct \in Accounts
      /\ job[e].attempt \in Attempts
  BY <1>1, AtAttempt
<1>3. CASE Bump(e)
  BY <1>1, <1>3, BumpType
<1>4. CASE Leave(e) /\ UNCHANGED disk
  BY <1>1, <1>4, LeaveMoves DEF TypeOK
<1>5. CASE Goto(e, "complete") /\ UNCHANGED <<job, disk>>
  <2>1. StageFits("complete", job[e]) /\ "complete" \in Stages
    BY <1>2 DEF StageFits, Stages
  <2> QED
    BY <1>1, <1>5, <2>1, CodeMoves DEF TypeOK
<1>6. CASE /\ Goto(e, "settle") /\ UNCHANGED disk
           /\ SetJob(e, [job[e] EXCEPT !.code = "exhausted"])
  <2>1. StageFits("settle", job[e]) /\ "settle" \in Stages
    BY <1>2 DEF StageFits, Stages
  <2>2. EngineTypeOK'
    BY <1>1, <1>6, <2>1, CodeMoves
  <2> QED
    BY <1>6, <2>2 DEF TypeOK
<1>7. ASSUME NEW level \in Levels, Goto(e, "consume"),
             SetJob(e, RetryJob(job[e], level)), UNCHANGED disk
      PROVE  disk' \in [Accounts -> AccountStates] /\ EngineTypeOK'
  <2> DEFINE j == RetryJob(job[e], level)
  <2>1. /\ j \in Jobs /\ j.acct = job[e].acct
        /\ j.attempt = job[e].attempt
    BY <1>2, JobFieldTypes
  <2>2. SetJob(e, j)
    BY <1>7
  <2> HIDE DEF j
  <2>3. StageFits("consume", j) /\ "consume" \in Stages
    BY <1>2, <2>1 DEF StageFits, Stages
  <2>4. EngineTypeOK'
    BY <1>1, <1>7, <2>1, <2>2, <2>3, MoveType
  <2> QED
    BY <1>7, <2>4 DEF TypeOK
<1>8. \/ Bump(e)
      \/ Leave(e) /\ UNCHANGED disk
      \/ Goto(e, "complete") /\ UNCHANGED <<job, disk>>
      \/ /\ Goto(e, "settle") /\ UNCHANGED disk
         /\ SetJob(e, [job[e] EXCEPT !.code = "exhausted"])
      \/ \E level \in Levels :
           /\ Goto(e, "consume") /\ SetJob(e, RetryJob(job[e], level))
           /\ UNCHANGED disk
  BY DEF VerifyUsage
<1> QED
  BY <1>3, <1>4, <1>5, <1>6, <1>7, <1>8

LEMMA CompleteType ==
  ASSUME TypeOK, NEW e \in Engines, Complete(e)
  PROVE  TypeOK'
<1> DEFINE a == job[e].acct
           attempt == job[e].attempt
           s == Succeeded(disk[a], attempt)
<1>1. pc[e] = "complete" /\ UNCHANGED life
  BY DEF Complete
<1>2. /\ job[e] \in Jobs /\ a \in Accounts /\ attempt \in Attempts
      /\ s \in AccountStates
  BY <1>1, AtAttempt, SettledType
<1>3. /\ disk' = [disk EXCEPT ![a] = s]
      /\ outcome' = [outcome EXCEPT ![attempt.key] = "success"]
      /\ owed' = [owed EXCEPT ![a] = TRUE]
  BY DEF Complete
<1> PICK stage \in {"clear", "next"} :
      /\ Goto(e, stage)
      /\ job' = [x \in Engines |->
           IF x = e THEN IF stage = "clear" THEN job[e] ELSE Left(e)
           ELSE IF job[x].acct = a /\ job[x].plan = "fresh"
                THEN [job[x] EXCEPT !.cold = TRUE]
           ELSE job[x]]
  BY DEF Complete
<1>4. EngineTypeOK'
  <2>1. pc' \in [Engines -> Stages]
    BY DEF Goto, TypeOK, EngineTypeOK, Stages
  <2>2. Left(e) \in Jobs
    BY <1>2, LeftType
  <2>3. \A x \in Engines :
          /\ job[x] \in Jobs /\ [job[x] EXCEPT !.cold = TRUE] \in Jobs
          /\ StageFits(pc[x], job[x])
          /\ StageFits(pc[x], [job[x] EXCEPT !.cold = TRUE])
    BY JobFieldTypes DEF TypeOK, EngineTypeOK
  <2>4. job' \in [Engines -> Jobs]
    BY <1>2, <2>2, <2>3
  <2>5. StageFits("clear", job[e]) /\ StageFits("next", Left(e))
    BY <1>2 DEF StageFits
  <2>6. \A x \in Engines : StageFits(pc'[x], job'[x])
    <3> SUFFICES ASSUME NEW x \in Engines
                 PROVE  StageFits(pc'[x], job'[x])
      OBVIOUS
    <3>1. CASE x = e
      <4>1. pc'[x] = stage
        BY <3>1 DEF Goto, TypeOK, EngineTypeOK
      <4>2. job'[x] = IF stage = "clear" THEN job[e] ELSE Left(e)
        BY <3>1
      <4> QED
        BY <2>5, <4>1, <4>2
    <3>2. CASE x # e
      <4>1. pc'[x] = pc[x]
        BY <3>2 DEF Goto, TypeOK, EngineTypeOK
      <4>2. job'[x] \in {job[x], [job[x] EXCEPT !.cold = TRUE]}
        BY <3>2
      <4> QED
        BY <2>3, <4>1, <4>2
    <3> QED
      BY <3>1, <3>2
  <2>7. (\A x \in Engines : StageFits(pc[x], job[x]))'
    BY <2>6 DEF StageFits
  <2> QED
    BY <1>1, <2>1, <2>4, <2>7 DEF TypeOK, EngineTypeOK
<1>5. disk' \in [Accounts -> AccountStates]
  <2> HIDE DEF a, s
  <2> QED
    BY <1>2, <1>3 DEF TypeOK
<1>6. /\ outcome' \in [Keys -> {"unused", "open", "success", "failed"}]
      /\ owed' \in [Accounts -> BOOLEAN]
  BY <1>3 DEF TypeOK
<1>7. UNCHANGED <<mgmtCooling, host, wallet, window, wire>>
  BY DEF Complete, serverVars
<1> QED
  BY <1>4, <1>5, <1>6, <1>7 DEF TypeOK

LEMMA CompleteFailsType ==
  ASSUME TypeOK, NEW e \in Engines, CompleteFails(e)
  PROVE  TypeOK'
<1>1. EngineTypeOK'
  <2>1. Leave(e) /\ UNCHANGED life
    BY DEF CompleteFails
  <2> QED
    BY <2>1, LeaveMoves
<1> QED
  BY <1>1 DEF TypeOK, CompleteFails, serverVars

LEMMA ResetQuotaType ==
  ASSUME TypeOK, NEW e \in Engines, ResetQuota(e)
  PROVE  TypeOK'
<1>1. /\ pc[e] = "clear" /\ Goto(e, "cleared") /\ UNCHANGED life
      /\ \E code \in {"ok", "error", "auth"} :
           SetJob(e, [job[e] EXCEPT !.code = code])
  BY DEF ResetQuota
<1>2. EngineTypeOK'
  <2>1. StageFits("cleared", job[e]) /\ "cleared" \in Stages
    BY <1>1, AtAccount DEF StageFits, Stages
  <2> QED
    BY <1>1, <2>1, CodeMoves
<1>3. owed' \in [Accounts -> BOOLEAN]
  BY DEF ResetQuota, TypeOK
<1> QED
  BY <1>2, <1>3 DEF TypeOK, ResetQuota, serverVars

LEMMA RecordClearType ==
  ASSUME TypeOK, NEW e \in Engines, RecordClear(e)
  PROVE  TypeOK'
<1>1. pc[e] = "cleared" /\ Leave(e) /\ UNCHANGED life
  BY DEF RecordClear
<1>2. EngineTypeOK'
  BY <1>1, LeaveMoves
<1>3. job[e].acct \in Accounts
  BY <1>1, AtAccount
<1>4. disk' \in [Accounts -> AccountStates]
  <2>1. \A s \in AccountStates, c \in {"none", "waiting"} :
          [s EXCEPT !.clear = c] \in AccountStates
    BY ZenonT(60) DEF AccountStates
  <2>2. \/ disk' = disk
        \/ \E c \in {"none", "waiting"} :
             disk' = [disk EXCEPT ![job[e].acct].clear = c]
    BY DEF RecordClear
  <2>3. /\ disk \in [Accounts -> AccountStates]
        /\ disk[job[e].acct] \in AccountStates
    BY <1>3 DEF TypeOK
  <2>4. ASSUME NEW c \in {"none", "waiting"},
               disk' = [disk EXCEPT ![job[e].acct].clear = c]
        PROVE  disk' \in [Accounts -> AccountStates]
    <3> DEFINE s == [disk[job[e].acct] EXCEPT !.clear = c]
    <3>1. s \in AccountStates
      BY <2>1, <2>3
    <3>2. disk' = [disk EXCEPT ![job[e].acct] = s]
      BY <2>4
    <3> HIDE DEF s
    <3> QED
      BY <2>3, <3>1, <3>2
  <2> QED
    BY <2>2, <2>3, <2>4
<1>5. mgmtCooling' \in BOOLEAN
  BY DEF RecordClear, TypeOK
<1> QED
  BY <1>2, <1>4, <1>5 DEF TypeOK, RecordClear, serverVars

LEMMA LifeType ==
  ASSUME TypeOK, NEW e \in Engines, LifeStep(e)
  PROVE  TypeOK'
<1>1. CASE Crash(e)
  <2>1. /\ life' \in [Engines -> {"running", "stopping", "cancelled", "down"}]
        /\ pc' = [pc EXCEPT ![e] = "idle"]
        /\ job' = [job EXCEPT ![e] = NoJob]
        /\ wire' \subseteq wire
    BY <1>1 DEF Crash, Goto, SetJob, TypeOK, EngineTypeOK
  <2>2. \A p \in Stages, j \in Jobs : p = "idle" => StageFits(p, j)
    BY DEF StageFits
  <2>3. "idle" \in Stages
    BY DEF Stages
  <2>4. \A x \in Engines : StageFits(pc'[x], job'[x])
    BY <2>1, <2>2, <2>3, NoJobType DEF TypeOK, EngineTypeOK
  <2>5. (\A x \in Engines : StageFits(pc[x], job[x]))'
    BY <2>4 DEF StageFits
  <2>6. EngineTypeOK'
    BY <2>1, <2>3, <2>5, NoJobType DEF TypeOK, EngineTypeOK
  <2> QED
    BY <1>1, <2>1, <2>6 DEF TypeOK, Crash
<1>2. CASE RequestStop(e) \/ Cancel(e) \/ Restart(e)
  <2>1. /\ life' \in [Engines -> {"running", "stopping", "cancelled", "down"}]
        /\ UNCHANGED <<pc, job>>
    BY <1>2 DEF RequestStop, Cancel, Restart, TypeOK, EngineTypeOK
  <2>2. EngineTypeOK'
    BY <2>1 DEF TypeOK, EngineTypeOK, StageFits
  <2>3. UNCHANGED <<disk, mgmtCooling, host, serverVars, outcome, owed>>
    BY <1>2 DEF RequestStop, Cancel, Restart
  <2> QED
    BY <2>2, <2>3 DEF TypeOK, serverVars
<1> QED
  BY <1>1, <1>2 DEF LifeStep

\* A step that leaves the engines alone.
LEMMA EnginesStay ==
  ASSUME TypeOK, UNCHANGED engineVars
  PROVE  EngineTypeOK'
BY DEF engineVars, TypeOK, EngineTypeOK, StageFits

LEMMA ClockType ==
  ASSUME TypeOK, ClockStep
  PROVE  TypeOK'
<1>1. CASE MgmtCooldownElapses
  <2>1. EngineTypeOK'
    BY <1>1, EnginesStay DEF MgmtCooldownElapses
  <2> QED
    BY <1>1, <2>1 DEF MgmtCooldownElapses, TypeOK, serverVars
<1>2. ASSUME NEW a \in Accounts,
             CooldownElapses(a) \/ BackoffElapses(a) \/ ClearFallsDue(a)
      PROVE  TypeOK'
  <2>1. \A s \in AccountStates :
          /\ [s EXCEPT !.cooling = FALSE] \in AccountStates
          /\ [s EXCEPT !.clear = "due"] \in AccountStates
    BY ZenonT(60) DEF AccountStates
  <2>2. \A s \in AccountStates : s.backoff # None =>
          [s EXCEPT !.backoff.active = FALSE] \in AccountStates
    <3> SUFFICES ASSUME NEW s \in AccountStates, s.backoff # None
                 PROVE  [s EXCEPT !.backoff.active = FALSE] \in AccountStates
      OBVIOUS
    <3> DEFINE b == [s.backoff EXCEPT !.active = FALSE]
    <3>1. s.backoff \in Backoffs
      BY DEF AccountStates
    <3>2. b \in Backoffs
      BY <3>1 DEF Backoffs
    <3>3. [s EXCEPT !.backoff.active = FALSE] = [s EXCEPT !.backoff = b]
      OBVIOUS
    <3> HIDE DEF b
    <3>4. [s EXCEPT !.backoff = b] \in AccountStates
      BY <3>2, ZenonT(60) DEF AccountStates
    <3> QED
      BY <3>3, <3>4
  <2>3. disk[a] \in AccountStates
    BY DEF TypeOK
  <2>4. disk' \in [Accounts -> AccountStates]
    <3>1. CASE CooldownElapses(a)
      BY <2>1, <2>3, <3>1 DEF CooldownElapses, TypeOK
    <3>2. CASE BackoffElapses(a)
      BY <2>2, <2>3, <3>2 DEF BackoffElapses, TypeOK
    <3>3. CASE ClearFallsDue(a)
      BY <2>1, <2>3, <3>3 DEF ClearFallsDue, TypeOK
    <3> QED
      BY <1>2, <3>1, <3>2, <3>3
  <2>5. UNCHANGED <<mgmtCooling, engineVars, host, serverVars, outcome, owed>>
    BY <1>2 DEF CooldownElapses, BackoffElapses, ClearFallsDue
  <2>6. EngineTypeOK'
    BY <2>5, EnginesStay
  <2> QED
    BY <2>4, <2>5, <2>6 DEF TypeOK, serverVars
<1> QED
  BY <1>1, <1>2 DEF ClockStep

LEMMA WorldType ==
  ASSUME TypeOK, WorldStep
  PROVE  TypeOK'
<1>1. ASSUME NEW m \in wire, Execute(m)
      PROVE  TypeOK'
  BY <1>1, ExecuteType
<1>2. ASSUME NEW a \in Accounts, NEW p \in BOOLEAN, SetParticipation(a, p)
      PROVE  TypeOK'
  <2>1. \A s \in AccountStates :
          [s EXCEPT !.participating = p] \in AccountStates
    BY ZenonT(60) DEF AccountStates
  <2>2. EngineTypeOK'
    BY <1>2, EnginesStay DEF SetParticipation
  <2>3. disk' \in [Accounts -> AccountStates]
    BY <1>2, <2>1 DEF SetParticipation, TypeOK
  <2> QED
    BY <1>2, <2>2, <2>3 DEF SetParticipation, TypeOK, serverVars
<1>3. ASSUME NEW a \in Accounts, HostChanges(a)
      PROVE  TypeOK'
  <2>1. EngineTypeOK'
    BY <1>3, EnginesStay DEF HostChanges
  <2> QED
    BY <1>3, <2>1 DEF HostChanges, TypeOK, serverVars
<1>4. ASSUME NEW a \in Accounts, NEW c \in Credits,
             CreditGranted(a, c) \/ CreditLeaves(a, c)
      PROVE  TypeOK'
  <2>1. EngineTypeOK'
    BY <1>4, EnginesStay DEF CreditGranted, CreditLeaves
  <2>2. wallet' \in
          [Accounts ->
             [Credits -> {"ungranted", "available", "gone"} \cup Keys]]
    <3>1. CASE CreditGranted(a, c)
      BY <3>1 DEF CreditGranted, TypeOK
    <3>2. CASE CreditLeaves(a, c)
      BY <3>2 DEF CreditLeaves, TypeOK
    <3> QED
      BY <1>4, <3>1, <3>2
  <2> QED
    BY <1>4, <2>1, <2>2 DEF CreditGranted, CreditLeaves, TypeOK
<1>5. ASSUME NEW a \in Accounts, WindowRolls(a)
      PROVE  TypeOK'
  <2>1. EngineTypeOK'
    BY <1>5, EnginesStay DEF WindowRolls
  <2>2. window' \in [Accounts -> 0..MaxWindow]
    BY <1>5, BoundsAssumption DEF WindowRolls, TypeOK
  <2> QED
    BY <1>5, <2>1, <2>2 DEF WindowRolls, TypeOK
<1> QED
  BY <1>1, <1>2, <1>3, <1>4, <1>5 DEF WorldStep

LEMMA ScanStepType ==
  ASSUME TypeOK, NEW e \in Engines, ScanStep(e)
  PROVE  TypeOK'
BY ReconcileType, LoadAccountType, FinishScanType, UsageReplyType,
   CreditsReplyType, RecheckReplyType, PersistAttemptType, PersistRefusedType,
   SendConsumeType, SendFailsType, GiveUpType, MarkAmbiguousType,
   ApplyFailureType, VerifyCreditsType, VerifyUsageType, CompleteType,
   CompleteFailsType, ResetQuotaType, RecordClearType DEF ScanStep

LEMMA NextType == TypeOK /\ [Next]_vars => TypeOK'
<1> SUFFICES ASSUME TypeOK, [Next]_vars PROVE TypeOK'
  OBVIOUS
<1>1. CASE UNCHANGED vars
  BY <1>1, EnginesStay DEF vars, serverVars, TypeOK
<1>2. ASSUME NEW e \in Engines, Discover(e) \/ ScanStep(e) \/ LifeStep(e)
      PROVE  TypeOK'
  BY <1>2, DiscoverType, ScanStepType, LifeType
<1>3. CASE ClockStep
  BY <1>3, ClockType
<1>4. CASE WorldStep
  BY <1>4, WorldType
<1> QED
  BY <1>1, <1>2, <1>3, <1>4 DEF Next

\* In every reachable state each variable has a value the code can give it and
\* each engine has the account, credit or attempt its stage dereferences.
THEOREM TypeCorrect == Spec => []TypeOK
<1>1. Init => TypeOK
  BY InitType
<1>2. TypeOK /\ [Next]_vars => TypeOK'
  BY NextType
<1> QED
  BY <1>1, <1>2, PTL DEF Spec
==============================================================================
