----------------------- MODULE ResetEngineSafetyProofs -----------------------
(***************************************************************************)
(* The safety of the reset engine for any accounts, credits, keys, number  *)
(* of engines and bounds, with or without late requests: IInv is           *)
(* inductive.                                                              *)
(***************************************************************************)
EXTENDS ResetEngineProofs

-----------------------------------------------------------------------------
(* What a step does to the attempts in the file.                           *)

\* An account whose attempt stays open or stays absent, and that does not
\* begin to cool down.
Quiet(s, t) ==
  /\ t.pending = None <=> s.pending = None
  /\ s.pending # None => Continues(s.pending, t.pending)
  /\ t.cooling => s.cooling

QuietDisk == \A a \in Accounts : Quiet(disk[a], disk'[a])

LEMMA QuietSame ==
  ASSUME NEW s \in AccountStates
  PROVE  Quiet(s, s)
BY BoundsAssumption DEF Quiet, Continues, AccountStates, Attempts

\* A state that differs in other fields only.
LEMMA QuietFields ==
  ASSUME NEW s \in AccountStates, NEW t,
         t.pending = s.pending, t.cooling => s.cooling
  PROVE  Quiet(s, t)
BY BoundsAssumption DEF Quiet, Continues, AccountStates, Attempts

LEMMA QuietAmbiguous ==
  ASSUME NEW s \in AccountStates, NEW attempt
  PROVE  Quiet(s, Ambiguous(s, attempt))
<1>1. CASE s.pending # None /\ s.pending.key = attempt.key
  <2> DEFINE n == IF s.pending.count < MaxVerify THEN s.pending.count + 1
                  ELSE s.pending.count
             p == [s.pending EXCEPT !.count = n]
             t == Ambiguous(s, attempt)
  <2>1. s.pending \in Attempts /\ s.pending.key \in Keys
    BY <1>1 DEF AccountStates, Attempts
  <2>2. n >= s.pending.count
    BY <2>1, BoundsAssumption DEF Attempts
  <2>3. Continues(s.pending, p) /\ p.key = s.pending.key
    BY <2>1, <2>2 DEF Continues, Attempts
  <2>4. t = [s EXCEPT !.pending = p, !.backoff = RunningBackoff(attempt.fp)]
    BY <1>1 DEF Ambiguous, AccountStates
  <2>5. t.pending = p /\ t.cooling = s.cooling
    BY <2>4 DEF AccountStates
  <2>6. p # None
    <3>1. n \in 0..MaxVerify
      BY <2>1, BoundsAssumption DEF Attempts
    <3>2. p \in Attempts
      BY <2>1, <3>1 DEF Attempts
    <3> QED
      BY <3>2, NoneAssumption
  <2> QED
    BY <1>1, <2>3, <2>5, <2>6 DEF Quiet
<1>2. CASE ~(s.pending # None /\ s.pending.key = attempt.key)
  BY <1>2, QuietSame DEF Ambiguous
<1> QED
  BY <1>1, <1>2

\* One account is written, or none.
LEMMA QuietUpdate ==
  ASSUME TypeOK, NEW a \in Accounts, NEW s, Quiet(disk[a], s), Update(a, s)
  PROVE  QuietDisk
<1>1. \A x \in Accounts : disk[x] \in AccountStates
  BY DEF TypeOK
<1>2. \A x \in Accounts : disk'[x] = disk[x] \/ (x = a /\ disk'[x] = s)
  BY DEF Update, TypeOK
<1> QED
  BY <1>1, <1>2, QuietSame DEF QuietDisk

LEMMA QuietStutter ==
  ASSUME TypeOK, UNCHANGED disk
  PROVE  QuietDisk
BY QuietSame DEF QuietDisk, TypeOK

LEMMA QuietBump ==
  ASSUME TypeOK, NEW e \in Engines, Bump(e),
         pc[e] \in {"settle", "vcredits", "vusage"}
  PROVE  QuietDisk
<1> DEFINE a == job[e].acct
           s == Ambiguous(disk[a], job[e].attempt)
<1>1. a \in Accounts /\ disk[a] \in AccountStates
  BY AtAttempt
<1>2. Quiet(disk[a], s) /\ Update(a, s)
  BY <1>1, QuietAmbiguous DEF Bump
<1> HIDE DEF a, s
<1> QED
  BY <1>1, <1>2, QuietUpdate

LEMMA QuietTransient ==
  ASSUME TypeOK, NEW e \in Engines, TransientFailure(e),
         pc[e] \in {"credits", "recheck"}
  PROVE  QuietDisk
<1> DEFINE a == job[e].acct
           s == [disk[a] EXCEPT !.backoff = RunningBackoff(None)]
<1>1. a \in Accounts /\ disk[a] \in AccountStates
  BY AtAccount
<1>2. Quiet(disk[a], s)
  <2>1. s.pending = disk[a].pending /\ s.cooling = disk[a].cooling
    BY <1>1 DEF AccountStates
  <2> QED
    BY <1>1, <2>1, QuietFields
<1>3. Update(a, s)
  BY DEF TransientFailure
<1> HIDE DEF a, s
<1> QED
  BY <1>1, <1>2, <1>3, QuietUpdate

\* Every step of a scan but the three that open and close attempts is quiet.
LEMMA QuietScan ==
  ASSUME TypeOK, NEW e \in Engines, Discover(e) \/ ScanStep(e) \/ LifeStep(e)
  PROVE  \/ QuietDisk /\ UNCHANGED outcome
         \/ PersistAttempt(e)
         \/ ApplyFailure(e)
         \/ Complete(e)
<1>1. CASE Reconcile(e)
  <2>1. \A a \in Accounts : Quiet(disk[a], Reconciled(job[e].todo)[a])
    <3> SUFFICES ASSUME NEW a \in Accounts
                 PROVE  Quiet(disk[a], Reconciled(job[e].todo)[a])
      OBVIOUS
    <3> DEFINE t == Reconciled(job[e].todo)[a]
    <3>1. disk[a] \in AccountStates
      BY DEF TypeOK
    <3>2. t.pending = disk[a].pending /\ t.cooling = disk[a].cooling
      BY <3>1 DEF Reconciled, AccountStates
    <3> QED
      BY <3>1, <3>2, QuietFields
  <2>2. disk' = disk \/ disk' = Reconciled(job[e].todo)
    BY <1>1 DEF Reconcile
  <2>3. QuietDisk
    BY <2>1, <2>2, QuietStutter DEF QuietDisk
  <2> QED
    BY <1>1, <2>3 DEF Reconcile
<1>2. CASE CreditsReply(e)
  <2>1. pc[e] = "credits" /\ (TransientFailure(e) \/ UNCHANGED disk)
        /\ UNCHANGED outcome
    BY <1>2 DEF CreditsReply
  <2> QED
    BY <2>1, QuietTransient, QuietStutter
<1>3. CASE RecheckReply(e)
  <2>1. pc[e] = "recheck" /\ (TransientFailure(e) \/ UNCHANGED disk)
        /\ UNCHANGED outcome
    BY <1>3 DEF RecheckReply
  <2> QED
    BY <2>1, QuietTransient, QuietStutter
<1>4. CASE MarkAmbiguous(e) \/ VerifyCredits(e) \/ VerifyUsage(e)
  <2>1. /\ pc[e] \in {"settle", "vcredits", "vusage"}
        /\ Bump(e) \/ UNCHANGED disk
        /\ UNCHANGED outcome
    BY <1>4 DEF MarkAmbiguous, VerifyCredits, VerifyUsage, Bump
  <2> QED
    BY <2>1, QuietBump, QuietStutter
<1>5. CASE RecordClear(e)
  <2> DEFINE a == job[e].acct
             s == [disk[a] EXCEPT !.clear =
                     IF job[e].code = "ok" THEN "none" ELSE "waiting"]
  <2>1. a \in Accounts /\ disk[a] \in AccountStates
    BY <1>5, AtAccount DEF RecordClear
  <2>2. s.pending = disk[a].pending /\ s.cooling = disk[a].cooling
    BY <2>1 DEF AccountStates
  <2>3. Update(a, s) /\ UNCHANGED outcome
    BY <1>5 DEF RecordClear, Update
  <2> HIDE DEF a, s
  <2>4. QuietDisk
    BY <2>1, <2>2, <2>3, QuietFields, QuietUpdate
  <2> QED
    BY <2>3, <2>4
<1>6. CASE \/ Discover(e) \/ LoadAccount(e) \/ FinishScan(e) \/ UsageReply(e)
           \/ PersistRefused(e) \/ SendConsume(e) \/ SendFails(e) \/ GiveUp(e)
           \/ CompleteFails(e) \/ ResetQuota(e) \/ LifeStep(e)
  <2>1. UNCHANGED <<disk, outcome>>
    BY <1>6 DEF Discover, LoadAccount, FinishScan, UsageReply, PersistRefused,
       SendConsume, SendFails, GiveUp, CompleteFails, ResetQuota, LifeStep,
       RequestStop, Cancel, Crash, Restart
  <2> QED
    BY <2>1, QuietStutter
<1> QED
  BY <1>1, <1>2, <1>3, <1>4, <1>5, <1>6 DEF ScanStep

LEMMA QuietWorld ==
  ASSUME TypeOK, ClockStep \/ WorldStep \/ UNCHANGED vars
  PROVE  QuietDisk /\ UNCHANGED outcome
<1>1. CASE UNCHANGED vars
  BY <1>1, QuietStutter DEF vars
<1>2. CASE MgmtCooldownElapses
  BY <1>2, QuietStutter DEF MgmtCooldownElapses
<1>3. ASSUME NEW a \in Accounts,
             \/ CooldownElapses(a) \/ BackoffElapses(a) \/ ClearFallsDue(a)
             \/ \E p \in BOOLEAN : SetParticipation(a, p)
      PROVE  QuietDisk /\ UNCHANGED outcome
  <2>1. disk[a] \in AccountStates
    BY DEF TypeOK
  <2>2. PICK s : Update(a, s) /\ s.pending = disk[a].pending
                 /\ (s.cooling => disk[a].cooling)
    <3>1. CASE CooldownElapses(a)
      BY <2>1, <3>1 DEF CooldownElapses, Update, AccountStates
    <3>2. CASE BackoffElapses(a)
      <4> DEFINE s == [disk[a] EXCEPT !.backoff.active = FALSE]
      <4>1. Update(a, s)
        BY <3>2 DEF BackoffElapses, Update
      <4>2. s.pending = disk[a].pending /\ s.cooling = disk[a].cooling
        BY <2>1 DEF AccountStates
      <4> QED
        BY <4>1, <4>2
    <3>3. CASE ClearFallsDue(a)
      <4> DEFINE s == [disk[a] EXCEPT !.clear = "due"]
      <4>1. Update(a, s)
        BY <3>3 DEF ClearFallsDue, Update
      <4>2. s.pending = disk[a].pending /\ s.cooling = disk[a].cooling
        BY <2>1 DEF AccountStates
      <4> QED
        BY <4>1, <4>2
    <3>4. CASE \E p \in BOOLEAN : SetParticipation(a, p)
      BY <2>1, <3>4 DEF SetParticipation, Update, AccountStates
    <3> QED
      BY <1>3, <3>1, <3>2, <3>3, <3>4
  <2>3. UNCHANGED outcome
    BY <1>3 DEF CooldownElapses, BackoffElapses, ClearFallsDue,
       SetParticipation
  <2> QED
    BY <2>1, <2>2, <2>3, QuietFields, QuietUpdate
<1>4. CASE \/ \E m \in wire : Execute(m)
           \/ \E a \in Accounts :
                \/ HostChanges(a) \/ WindowRolls(a)
                \/ \E c \in Credits : CreditGranted(a, c) \/ CreditLeaves(a, c)
  BY <1>4, QuietStutter DEF Execute, HostChanges, WindowRolls, CreditGranted,
     CreditLeaves
<1> QED
  BY <1>1, <1>2, <1>3, <1>4 DEF ClockStep, WorldStep

-----------------------------------------------------------------------------
(* What a step does to the attempts the scans carry, the requests and the  *)
(* service's books: it adds no use of a key.                               *)

\* After a step that does not write an attempt, engine x carries the attempt it
\* carried before, or the one it just read from the file.
Carried(x) ==
  Carries(x)' =>
    \/ /\ Carries(x)
       /\ job'[x].acct = job[x].acct /\ job'[x].attempt = job[x].attempt
    \/ /\ job'[x].acct \in Accounts
       /\ disk[job'[x].acct].pending # None
       /\ job'[x].attempt = disk[job'[x].acct].pending

AllCarried == \A x \in Engines : Carried(x)

LEMMA CarriedMove ==
  ASSUME TypeOK, NEW e \in Engines, NEW p, NEW j, Goto(e, p), SetJob(e, j),
         p \in {"consume", "await", "settle", "vcredits", "vusage", "complete"}
           => /\ Carries(e)
              /\ j.acct = job[e].acct /\ j.attempt = job[e].attempt,
         p = "usage" /\ j.plan = "resolve"
           => /\ j.acct \in Accounts /\ disk[j.acct].pending # None
              /\ j.attempt = disk[j.acct].pending
  PROVE  AllCarried
<1> SUFFICES ASSUME NEW x \in Engines
             PROVE  Carried(x)
  BY DEF AllCarried
<1>1. /\ x = e => pc'[x] = p /\ job'[x] = j
      /\ x # e => pc'[x] = pc[x] /\ job'[x] = job[x]
  BY DEF Goto, SetJob, TypeOK, EngineTypeOK
<1>2. CASE x = e
  BY <1>1, <1>2 DEF Carried, Carries
<1>3. CASE x # e
  BY <1>1, <1>3 DEF Carried, Carries
<1> QED
  BY <1>2, <1>3

LEMMA CarriedSame ==
  ASSUME UNCHANGED <<pc, job>>
  PROVE  AllCarried
BY DEF AllCarried, Carried, Carries

LEMMA CarriedLeave ==
  ASSUME TypeOK, NEW e \in Engines, Leave(e)
  PROVE  AllCarried
<1>1. Goto(e, "next") /\ SetJob(e, Left(e))
  BY DEF Leave
<1> QED
  BY <1>1, CarriedMove

\* A step that changes at most the code of a job it keeps.
LEMMA CarriedCode ==
  ASSUME TypeOK, NEW e \in Engines, NEW p,
         p \in {"consume", "await", "settle", "vcredits", "vusage", "complete"}
           => Carries(e),
         p # "usage", Goto(e, p),
         UNCHANGED job \/ \E c : SetJob(e, [job[e] EXCEPT !.code = c])
  PROVE  AllCarried
<1>1. job[e] \in Jobs
  BY DEF TypeOK, EngineTypeOK
<1>2. CASE UNCHANGED job
  <2>1. SetJob(e, job[e])
    BY <1>2 DEF SetJob, TypeOK, EngineTypeOK
  <2> QED
    BY <2>1, CarriedMove
<1>3. ASSUME NEW c, SetJob(e, [job[e] EXCEPT !.code = c])
      PROVE  AllCarried
  <2> DEFINE j == [job[e] EXCEPT !.code = c]
  <2>1. j.acct = job[e].acct /\ j.attempt = job[e].attempt
    BY <1>1 DEF Jobs
  <2>2. SetJob(e, j)
    BY <1>3
  <2> HIDE DEF j
  <2> QED
    BY <2>1, <2>2, CarriedMove
<1> QED
  BY <1>2, <1>3

\* processAccount loads the open attempt of the file, and only in the plan to
\* resolve it.
LEMMA CarriedLoad ==
  ASSUME TypeOK, NEW e \in Engines, LoadAccount(e)
  PROVE  AllCarried
<1>1. job[e] \in Jobs /\ pc[e] = "next"
  BY DEF TypeOK, EngineTypeOK, LoadAccount
<1>2. PICK a \in job[e].todo :
        LET rest == [job[e] EXCEPT !.todo = @ \ {a}]
            s == disk[a]
            plan == Plan(s, a \in job[e].off)
        IN \/ /\ s.present # "unknown"
              /\ Goto(e, "usage")
              /\ SetJob(e, [rest EXCEPT
                   !.acct = a,
                   !.plan = plan,
                   !.tomb = s.tomb,
                   !.avoid = IF s.backoff = None THEN None ELSE s.backoff.fp,
                   !.cold = s.cooling,
                   !.attempt = IF plan = "resolve" THEN s.pending ELSE None])
           \/ SetJob(e, rest) /\ UNCHANGED pc
  BY DEF LoadAccount
<1> DEFINE rest == [job[e] EXCEPT !.todo = @ \ {a}]
           s == disk[a]
           plan == Plan(s, a \in job[e].off)
           full == [rest EXCEPT
                   !.acct = a,
                   !.plan = plan,
                   !.tomb = s.tomb,
                   !.avoid = IF s.backoff = None THEN None ELSE s.backoff.fp,
                   !.cold = s.cooling,
                   !.attempt = IF plan = "resolve" THEN s.pending ELSE None]
<1>3. a \in Accounts /\ s \in AccountStates
  BY <1>1 DEF Jobs, TypeOK
<1>4. full.acct = a /\ full.plan = plan
      /\ full.attempt = IF plan = "resolve" THEN s.pending ELSE None
  BY <1>1 DEF Jobs
<1>5. plan = "resolve" => s.pending # None
  BY DEF Plan
<1>6. \/ SetJob(e, full) /\ Goto(e, "usage")
      \/ SetJob(e, rest) /\ UNCHANGED pc
  BY <1>2
<1> HIDE DEF full, plan
<1>7. CASE SetJob(e, full) /\ Goto(e, "usage")
  BY <1>3, <1>4, <1>5, <1>7, CarriedMove
<1>8. CASE SetJob(e, rest) /\ UNCHANGED pc
  <2>1. Goto(e, "next")
    BY <1>1, <1>8 DEF Goto, TypeOK, EngineTypeOK
  <2> HIDE DEF rest
  <2> QED
    BY <1>8, <2>1, CarriedMove
<1> QED
  BY <1>6, <1>7, <1>8

\* Scan steps but PersistAttempt, which writes the attempt it then carries.
LEMMA CarriedScan ==
  ASSUME TypeOK, NEW e \in Engines, Discover(e) \/ ScanStep(e) \/ LifeStep(e),
         ~PersistAttempt(e)
  PROVE  AllCarried
<1>1. CASE Discover(e)
  <2>1. Goto(e, "reconcile") /\ \E j : SetJob(e, j)
    BY <1>1 DEF Discover
  <2> QED
    BY <2>1, CarriedMove
<1>2. CASE Reconcile(e)
  <2>1. \/ Goto(e, "next") /\ UNCHANGED job
        \/ Goto(e, "idle") /\ SetJob(e, NoJob)
    BY <1>2 DEF Reconcile
  <2> QED
    BY <2>1, CarriedMove, CarriedCode
<1>3. CASE FinishScan(e)
  <2>1. Goto(e, "idle") /\ SetJob(e, NoJob)
    BY <1>3 DEF FinishScan
  <2> QED
    BY <2>1, CarriedMove
<1>4. CASE UsageReply(e)
  <2>1. /\ pc[e] = "usage"
        /\ job[e].plan \in {"skip", "clear", "wait", "resolve", "fresh"}
    BY <1>4 DEF UsageReply, TypeOK, EngineTypeOK, Jobs
  <2>2. \/ Leave(e)
        \/ Goto(e, "clear") /\ \E j : SetJob(e, j)
        \/ /\ job[e].plan = "resolve" /\ Goto(e, "vcredits")
           /\ SetJob(e, Attempting(e, job[e].attempt))
        \/ Goto(e, "credits") /\ \E j : SetJob(e, j)
    <3>1. CASE job[e].plan = "skip"
      BY <1>4, <3>1 DEF UsageReply
    <3>2. CASE job[e].plan = "clear" \/ job[e].plan = "wait"
      BY <1>4, <3>2 DEF UsageReply
    <3>3. CASE job[e].plan = "resolve"
      BY <1>4, <3>3 DEF UsageReply
    <3>4. CASE job[e].plan = "fresh"
      BY <1>4, <3>4 DEF UsageReply
    <3> QED
      BY <2>1, <3>1, <3>2, <3>3, <3>4
  <2>3. CASE /\ job[e].plan = "resolve" /\ Goto(e, "vcredits")
             /\ SetJob(e, Attempting(e, job[e].attempt))
    <3> DEFINE j == Attempting(e, job[e].attempt)
    <3>1. j.acct = job[e].acct /\ j.attempt = job[e].attempt
      BY DEF Attempting, Left, NoJob
    <3>2. SetJob(e, j) /\ Carries(e)
      BY <2>1, <2>3 DEF Carries
    <3> HIDE DEF j
    <3> QED
      BY <2>3, <3>1, <3>2, CarriedMove
  <2> QED
    BY <2>2, <2>3, CarriedLeave, CarriedMove
<1>5. CASE CreditsReply(e) \/ RecheckReply(e)
  <2>1. \/ Leave(e)
        \/ \E p \in {"recheck", "persist"} : \E j : Goto(e, p) /\ SetJob(e, j)
    BY <1>5 DEF CreditsReply, RecheckReply, TransientFailure
  <2> QED
    BY <2>1, CarriedLeave, CarriedMove
<1>6. CASE VerifyUsage(e)
  <2>1. /\ Carries(e) /\ job[e] \in Jobs
        /\ \/ Leave(e)
           \/ Goto(e, "complete") /\ UNCHANGED job
           \/ Goto(e, "settle")
              /\ SetJob(e, [job[e] EXCEPT !.code = "exhausted"])
           \/ \E level \in Levels : Goto(e, "consume")
                                    /\ SetJob(e, RetryJob(job[e], level))
    BY <1>6 DEF VerifyUsage, Bump, Carries, TypeOK, EngineTypeOK
  <2>2. \A level \in Levels :
          /\ RetryJob(job[e], level).acct = job[e].acct
          /\ RetryJob(job[e], level).attempt = job[e].attempt
    BY <2>1, JobFieldTypes
  <2>3. CASE \E level \in Levels : Goto(e, "consume")
                                   /\ SetJob(e, RetryJob(job[e], level))
    BY <2>1, <2>2, <2>3, CarriedMove
  <2> QED
    BY <2>1, <2>3, CarriedLeave, CarriedCode
<1>7. CASE SendConsume(e) \/ SendFails(e) \/ GiveUp(e) \/ VerifyCredits(e)
           \/ ResetQuota(e)
  <2>1. \/ Leave(e)
        \/ \E p \in {"await", "settle", "vusage", "cleared"} :
             /\ p # "cleared" => Carries(e)
             /\ Goto(e, p)
             /\ UNCHANGED job \/ \E c : SetJob(e, [job[e] EXCEPT !.code = c])
    <3>1. CASE SendConsume(e) \/ SendFails(e) \/ GiveUp(e)
      BY <3>1 DEF SendConsume, SendFails, GiveUp, Carries
    <3>2. CASE VerifyCredits(e)
      BY <3>2 DEF VerifyCredits, Bump, Carries
    <3>3. CASE ResetQuota(e)
      BY <3>3 DEF ResetQuota
    <3> QED
      BY <1>7, <3>1, <3>2, <3>3
  <2> QED
    BY <2>1, CarriedLeave, CarriedCode
<1>8. CASE PersistRefused(e) \/ MarkAmbiguous(e) \/ ApplyFailure(e)
           \/ CompleteFails(e) \/ RecordClear(e)
  <2>1. Leave(e)
    BY <1>8 DEF PersistRefused, MarkAmbiguous, ApplyFailure, CompleteFails,
       RecordClear
  <2> QED
    BY <2>1, CarriedLeave
<1>9. CASE Complete(e)
  <2> SUFFICES ASSUME NEW x \in Engines
               PROVE  Carried(x)
    BY DEF AllCarried
  <2>1. PICK stage \in {"clear", "next"} :
          /\ Goto(e, stage)
          /\ job' = [y \in Engines |->
               IF y = e THEN IF stage = "clear" THEN job[e] ELSE Left(e)
               ELSE IF job[y].acct = job[e].acct /\ job[y].plan = "fresh"
                    THEN [job[y] EXCEPT !.cold = TRUE]
               ELSE job[y]]
    BY <1>9 DEF Complete
  <2>2. CASE x = e
    BY <2>1, <2>2 DEF Goto, TypeOK, EngineTypeOK, Carried, Carries
  <2>3. CASE x # e
    <3>1. pc'[x] = pc[x] /\ job[x] \in Jobs
      BY <2>1, <2>3 DEF Goto, TypeOK, EngineTypeOK
    <3>2. job'[x] = job[x] \/ job'[x] = [job[x] EXCEPT !.cold = TRUE]
      BY <2>1, <2>3
    <3>3. /\ job'[x].acct = job[x].acct /\ job'[x].attempt = job[x].attempt
          /\ job'[x].plan = job[x].plan
      BY <3>1, <3>2 DEF Jobs
    <3> QED
      BY <3>1, <3>3 DEF Carried, Carries
  <2> QED
    BY <2>2, <2>3
<1>10. CASE LifeStep(e)
  <2>1. \/ UNCHANGED <<pc, job>>
        \/ Goto(e, "idle") /\ SetJob(e, NoJob)
    BY <1>10 DEF LifeStep, RequestStop, Cancel, Crash, Restart
  <2> QED
    BY <2>1, CarriedSame, CarriedMove
<1> QED
  BY <1>1, <1>2, <1>3, <1>4, <1>5, <1>6, <1>7, <1>8, <1>9, <1>10, CarriedLoad
     DEF ScanStep

LEMMA CarriedWorld ==
  ASSUME TypeOK, ClockStep \/ WorldStep \/ UNCHANGED vars
  PROVE  AllCarried
<1>1. CASE UNCHANGED <<pc, job>>
  BY <1>1, CarriedSame
<1>2. ASSUME NEW m \in wire, Execute(m)
      PROVE  AllCarried
  <2>1. m.eng \in Engines
    BY DEF TypeOK, Requests
  <2>2. \/ UNCHANGED <<pc, job>>
        \/ /\ Carries(m.eng)
           /\ \E p \in {"complete", "settle"} : Goto(m.eng, p)
           /\ UNCHANGED job
              \/ \E c : SetJob(m.eng, [job[m.eng] EXCEPT !.code = c])
    BY <1>2 DEF Execute, Carries
  <2> QED
    BY <1>1, <2>1, <2>2, CarriedCode
<1>3. UNCHANGED <<pc, job>> \/ \E m \in wire : Execute(m)
  BY DEF ClockStep, WorldStep, MgmtCooldownElapses, CooldownElapses,
     BackoffElapses, ClearFallsDue, SetParticipation, HostChanges,
     CreditGranted, CreditLeaves, WindowRolls, engineVars, vars
<1> QED
  BY <1>1, <1>2, <1>3

\* A request on the wire was there before, or is that of the attempt an engine
\* carries.
LEMMA WireUsesKept ==
  ASSUME TypeOK, [Next]_vars, NEW k, NEW a, NEW c, WireUses(k, a, c)'
  PROVE  ScanUses(k, a, c) \/ WireUses(k, a, c)
<1>1. CASE wire' \subseteq wire
  BY <1>1 DEF WireUses
<1>2. ASSUME NEW e \in Engines, SendConsume(e)
      PROVE  ScanUses(k, a, c) \/ WireUses(k, a, c)
  <2>1. Carries(e)
    BY <1>2 DEF SendConsume, Carries
  <2>2. PICK m \in wire' : m.key = k /\ m.acct = a /\ m.credit = c
    BY DEF WireUses
  <2>3. CASE m \in wire
    BY <2>2, <2>3 DEF WireUses
  <2>4. CASE m \notin wire
    <3>1. m = [eng |-> e, acct |-> job[e].acct,
               credit |-> job[e].attempt.credit, key |-> job[e].attempt.key,
               try |-> job[e].attempt.count]
      BY <1>2, <2>4 DEF SendConsume
    <3> QED
      BY <2>1, <2>2, <3>1 DEF ScanUses
  <2> QED
    BY <2>3, <2>4
<1>3. wire' \subseteq wire \/ \E e \in Engines : SendConsume(e)
  <2>1. CASE ClockStep \/ WorldStep \/ UNCHANGED vars
    BY <2>1 DEF ClockStep, WorldStep, MgmtCooldownElapses, CooldownElapses,
       BackoffElapses, ClearFallsDue, SetParticipation, HostChanges,
       CreditGranted, CreditLeaves, WindowRolls, Execute, serverVars, vars
  <2>2. ASSUME NEW e \in Engines, Discover(e) \/ LifeStep(e) \/ ScanStep(e)
        PROVE  wire' \subseteq wire \/ SendConsume(e)
    <3>1. CASE Discover(e) \/ LifeStep(e)
      BY <3>1 DEF Discover, LifeStep, RequestStop, Cancel, Crash, Restart,
         serverVars
    <3>2. CASE GiveUp(e)
      BY <3>2 DEF GiveUp
    <3>3. CASE ScanStep(e) /\ ~GiveUp(e) /\ ~SendConsume(e)
      BY <3>3 DEF ScanStep, Reconcile, LoadAccount, FinishScan, UsageReply,
         CreditsReply, RecheckReply, PersistAttempt, PersistRefused,
         SendFails, MarkAmbiguous, ApplyFailure, VerifyCredits, VerifyUsage,
         Complete, CompleteFails, ResetQuota, RecordClear, serverVars
    <3> QED
      BY <2>2, <3>1, <3>2, <3>3
  <2> QED
    BY <2>1, <2>2 DEF Next
<1> QED
  BY <1>1, <1>2, <1>3

\* A credit is redeemed under the key of a request on the wire.
LEMMA BookUsesKept ==
  ASSUME TypeOK, [Next]_vars, NEW k \in Keys, NEW a \in Accounts,
         NEW c \in Credits, wallet'[a][c] = k
  PROVE  wallet[a][c] = k \/ WireUses(k, a, c)
<1>1. CASE UNCHANGED wallet
  BY <1>1
<1>2. ASSUME NEW m \in wire, Execute(m)
      PROVE  wallet[a][c] = k \/ WireUses(k, a, c)
  <2>1. /\ wallet \in [Accounts ->
                        [Credits -> {"ungranted", "available", "gone"}
                                    \cup Keys]]
        /\ m.acct \in Accounts /\ m.credit \in Credits
    BY DEF TypeOK, Requests
  <2>2. \/ UNCHANGED wallet
        \/ wallet' = [wallet EXCEPT ![m.acct][m.credit] = m.key]
    BY <1>2 DEF Execute
  <2>3. wallet'[a][c] = wallet[a][c]
        \/ (a = m.acct /\ c = m.credit /\ wallet'[a][c] = m.key)
    BY <2>1, <2>2
  <2> QED
    BY <2>3 DEF WireUses
<1>3. ASSUME NEW b \in Accounts, NEW d \in Credits,
             CreditGranted(b, d) \/ CreditLeaves(b, d)
      PROVE  wallet[a][c] = k
  <2>1. wallet'[a][c] = wallet[a][c] \/ wallet'[a][c] \in {"available", "gone"}
    <3>1. wallet \in [Accounts ->
                       [Credits -> {"ungranted", "available", "gone"}
                                   \cup Keys]]
      BY DEF TypeOK
    <3>2. \E w \in {"available", "gone"} :
            wallet' = [wallet EXCEPT ![b][d] = w]
      BY <1>3 DEF CreditGranted, CreditLeaves
    <3> QED
      BY <3>1, <3>2
  <2> QED
    BY <2>1, KeysAssumption
<1>4. \/ UNCHANGED wallet
      \/ \E m \in wire : Execute(m)
      \/ \E b \in Accounts, d \in Credits :
           CreditGranted(b, d) \/ CreditLeaves(b, d)
  <2>1. CASE ClockStep \/ WorldStep \/ UNCHANGED vars
    BY <2>1 DEF ClockStep, WorldStep, MgmtCooldownElapses, CooldownElapses,
       BackoffElapses, ClearFallsDue, SetParticipation, HostChanges,
       WindowRolls, serverVars, vars
  <2>2. ASSUME NEW e \in Engines, Discover(e) \/ LifeStep(e) \/ ScanStep(e)
        PROVE  UNCHANGED wallet
    <3>1. CASE Discover(e) \/ LifeStep(e)
      BY <3>1 DEF Discover, LifeStep, RequestStop, Cancel, Crash, Restart,
         serverVars
    <3>2. CASE ScanStep(e)
      BY <3>2 DEF ScanStep, Reconcile, LoadAccount, FinishScan, UsageReply,
         CreditsReply, RecheckReply, PersistAttempt, PersistRefused,
         SendConsume, SendFails, GiveUp, MarkAmbiguous, ApplyFailure,
         VerifyCredits, VerifyUsage, Complete, CompleteFails, ResetQuota,
         RecordClear, serverVars
    <3> QED
      BY <2>2, <3>1, <3>2
  <2> QED
    BY <2>1, <2>2 DEF Next
<1> QED
  BY <1>1, <1>2, <1>3, <1>4

\* What the scans carry after a step that writes no attempt was carried before,
\* or is in the file.
LEMMA ScanUsesKept ==
  ASSUME AllCarried, NEW k, NEW a, NEW c, ScanUses(k, a, c)'
  PROVE  ScanUses(k, a, c) \/ FileUses(k, a, c)
<1>1. PICK e \in Engines :
        /\ Carries(e)' /\ job'[e].acct = a
        /\ job'[e].attempt.key = k /\ job'[e].attempt.credit = c
  BY DEF ScanUses
<1>2. Carried(e)
  BY DEF AllCarried
<1> QED
  BY <1>1, <1>2 DEF Carried, ScanUses, FileUses

\* A step that neither opens nor closes an attempt adds no use of a key.
LEMMA FileUsesKept ==
  ASSUME QuietDisk, NEW k, NEW a \in Accounts, NEW c, FileUses(k, a, c)'
  PROVE  FileUses(k, a, c)
BY DEF QuietDisk, Quiet, Continues, FileUses

-----------------------------------------------------------------------------
(* A step that closes an attempt.                                          *)

LEMMA CloseEffect ==
  ASSUME TypeOK, NEW e \in Engines, ApplyFailure(e) \/ Complete(e)
  PROVE  /\ job[e].acct \in Accounts
         /\ \A x \in Accounts :
              \/ disk'[x] = disk[x]
              \/ x = job[e].acct /\ disk'[x].pending = None
<1> DEFINE a == job[e].acct
<1>1. a \in Accounts /\ disk[a] \in AccountStates
  BY AtAttempt DEF ApplyFailure, Complete
<1>2. \E s : s.pending = None /\ disk' \in {disk, [disk EXCEPT ![a] = s]}
  <2>1. CASE ApplyFailure(e)
    <3> DEFINE s == Failed(disk[a], job[e].attempt, job[e].code = "no_credit")
    <3>1. s.pending = None
      BY <1>1 DEF Failed, AccountStates
    <3>2. disk' \in {disk, [disk EXCEPT ![a] = s]}
      BY <2>1 DEF ApplyFailure
    <3> HIDE DEF s, a
    <3> QED
      BY <3>1, <3>2
  <2>2. CASE Complete(e)
    <3> DEFINE s == Succeeded(disk[a], job[e].attempt)
    <3>1. s.pending = None
      BY <1>1 DEF Succeeded, AccountStates
    <3>2. disk' \in {disk, [disk EXCEPT ![a] = s]}
      BY <2>2 DEF Complete
    <3> HIDE DEF s, a
    <3> QED
      BY <3>1, <3>2
  <2> QED
    BY <2>1, <2>2
<1> HIDE DEF a
<1>3. \A x \in Accounts :
        disk'[x] = disk[x] \/ (x = a /\ disk'[x].pending = None)
  BY <1>1, <1>2 DEF TypeOK
<1> QED
  BY <1>1, <1>3 DEF a

-----------------------------------------------------------------------------
(* Each key stands for one credit.                                         *)

LEMMA TracedWithoutNewUse ==
  ASSUME KeysTraced,
         \A k \in Keys, a \in Accounts, c \in Credits :
           Uses(k, a, c)' => Uses(k, a, c),
         \A k \in Keys : outcome[k] # "unused" => outcome'[k] # "unused"
  PROVE  KeysTraced'
<1>1. \A k \in Keys, a \in Accounts, c \in Credits : Uses(k, a, c)' =>
        /\ outcome'[k] # "unused"
        /\ \A b \in Accounts, d \in Credits :
             Uses(k, b, d)' => a = b /\ c = d
  <2> HIDE DEF Uses
  <2> QED
    BY DEF KeysTraced
<1> QED
  BY <1>1 DEF KeysTraced

\* All steps but that which writes an attempt.
LEMMA TracedOtherwise ==
  ASSUME TypeOK, KeysTraced, [Next]_vars, AllCarried,
         \/ QuietDisk /\ UNCHANGED outcome
         \/ \E e \in Engines : ApplyFailure(e) \/ Complete(e)
  PROVE  KeysTraced'
<1>1. \A k \in Keys, a \in Accounts, c \in Credits :
        FileUses(k, a, c)' => FileUses(k, a, c)
  <2>1. CASE QuietDisk
    BY <2>1, FileUsesKept
  <2>2. ASSUME NEW e \in Engines, ApplyFailure(e) \/ Complete(e)
        PROVE  \A k \in Keys, a \in Accounts, c \in Credits :
                 FileUses(k, a, c)' => FileUses(k, a, c)
    BY <2>2, CloseEffect DEF FileUses
  <2> QED
    BY <2>1, <2>2
<1>2. \A k \in Keys, a \in Accounts, c \in Credits :
        Uses(k, a, c)' => Uses(k, a, c)
  <2> SUFFICES ASSUME NEW k \in Keys, NEW a \in Accounts, NEW c \in Credits,
                      Uses(k, a, c)'
               PROVE  Uses(k, a, c)
    OBVIOUS
  <2>1. \/ FileUses(k, a, c)' \/ ScanUses(k, a, c)' \/ WireUses(k, a, c)'
        \/ wallet'[a][c] = k
    BY DEF Uses
  <2> QED
    BY <1>1, <2>1, ScanUsesKept, WireUsesKept, BookUsesKept DEF Uses
<1>3. \A k \in Keys : outcome[k] # "unused" => outcome'[k] # "unused"
  <2>1. CASE UNCHANGED outcome
    BY <2>1
  <2>2. ASSUME NEW e \in Engines, ApplyFailure(e)
        PROVE  \A k \in Keys : outcome[k] # "unused" => outcome'[k] # "unused"
    BY <2>2 DEF ApplyFailure, TypeOK
  <2>3. ASSUME NEW e \in Engines, Complete(e)
        PROVE  \A k \in Keys : outcome[k] # "unused" => outcome'[k] # "unused"
    BY <2>3 DEF Complete, TypeOK
  <2> QED
    BY <2>1, <2>2, <2>3
<1> QED
  BY <1>2, <1>3, TracedWithoutNewUse

\* What persistAttempt does when it writes a new attempt.
LEMMA PersistEffect ==
  ASSUME TypeOK, NEW e \in Engines, PersistAttempt(e)
  PROVE  \E k \in Keys, p \in Attempts :
           /\ p.key = k /\ p.credit = job[e].credit
           /\ job[e].acct \in Accounts /\ job[e].credit \in Credits
           /\ disk[job[e].acct].pending = None /\ ~job[e].cold
           /\ outcome[k] = "unused"
           /\ outcome' = [outcome EXCEPT ![k] = "open"]
           /\ disk'[job[e].acct].pending = p
           /\ disk'[job[e].acct].cooling = disk[job[e].acct].cooling
           /\ \A x \in Accounts : x # job[e].acct => disk'[x] = disk[x]
           /\ \A x \in Engines : x # e => pc'[x] = pc[x] /\ job'[x] = job[x]
           /\ \/ pc'[e] = "next"
              \/ /\ pc'[e] = "consume" /\ job'[e].acct = job[e].acct
                 /\ job'[e].attempt = p
<1>1. pc[e] = "persist" /\ disk[job[e].acct].pending = None /\ ~job[e].cold
  BY DEF PersistAttempt, MayPersist
<1>2. /\ job[e].acct \in Accounts /\ job[e].credit \in Credits
      /\ job[e].fp \in Fingerprints
      /\ disk[job[e].acct] \in AccountStates
  BY <1>1 DEF TypeOK, EngineTypeOK, StageFits
<1>3. PICK k \in Keys :
        LET attempt == [key |-> k, credit |-> job[e].credit, fp |-> job[e].fp,
                        count |-> 0]
        IN /\ outcome[k] = "unused"
           /\ disk' = [disk EXCEPT ![job[e].acct].pending = attempt]
           /\ outcome' = [outcome EXCEPT ![k] = "open"]
           /\ \/ /\ Goto(e, "consume")
                 /\ SetJob(e, Attempting(e, attempt))
              \/ Leave(e)
  BY DEF PersistAttempt
<1> DEFINE p == [key |-> k, credit |-> job[e].credit, fp |-> job[e].fp,
                 count |-> 0]
           j == Attempting(e, p)
<1>4. p \in Attempts /\ p.key = k /\ p.credit = job[e].credit
  BY <1>2, BoundsAssumption DEF Attempts
<1>5. /\ outcome[k] = "unused"
      /\ disk' = [disk EXCEPT ![job[e].acct].pending = p]
      /\ outcome' = [outcome EXCEPT ![k] = "open"]
      /\ Leave(e) \/ (Goto(e, "consume") /\ SetJob(e, j))
  BY <1>3
<1> HIDE DEF p
<1>6. /\ disk'[job[e].acct].pending = p
      /\ disk'[job[e].acct].cooling = disk[job[e].acct].cooling
      /\ \A x \in Accounts : x # job[e].acct => disk'[x] = disk[x]
  <2>1. disk'[job[e].acct] = [disk[job[e].acct] EXCEPT !.pending = p]
    BY <1>2, <1>5 DEF TypeOK
  <2>2. \A x \in Accounts : x # job[e].acct => disk'[x] = disk[x]
    BY <1>5 DEF TypeOK
  <2> QED
    BY <1>2, <2>1, <2>2 DEF AccountStates
<1>7. j.acct = job[e].acct /\ j.attempt = p
  BY DEF Attempting, Left, NoJob
<1> HIDE DEF j
<1>8. /\ \A x \in Engines : x # e => pc'[x] = pc[x] /\ job'[x] = job[x]
      /\ \/ pc'[e] = "next"
         \/ pc'[e] = "consume" /\ job'[e] = j
  BY <1>5 DEF Leave, Goto, SetJob, TypeOK, EngineTypeOK
<1> QED
  BY <1>1, <1>2, <1>4, <1>5, <1>6, <1>7, <1>8

LEMMA TracedWhenPersisted ==
  ASSUME TypeOK, KeysTraced, NEW e \in Engines, PersistAttempt(e)
  PROVE  KeysTraced'
<1>1. PICK k \in Keys, p \in Attempts :
        /\ p.key = k /\ p.credit = job[e].credit
        /\ job[e].acct \in Accounts /\ job[e].credit \in Credits
        /\ disk[job[e].acct].pending = None /\ ~job[e].cold
        /\ outcome[k] = "unused"
        /\ outcome' = [outcome EXCEPT ![k] = "open"]
        /\ disk'[job[e].acct].pending = p
        /\ disk'[job[e].acct].cooling = disk[job[e].acct].cooling
        /\ \A x \in Accounts : x # job[e].acct => disk'[x] = disk[x]
        /\ \A x \in Engines : x # e => pc'[x] = pc[x] /\ job'[x] = job[x]
        /\ \/ pc'[e] = "next"
           \/ /\ pc'[e] = "consume" /\ job'[e].acct = job[e].acct
              /\ job'[e].attempt = p
  BY PersistEffect
<1>2. UNCHANGED <<wire, wallet>>
  BY DEF PersistAttempt, serverVars
<1>3. ASSUME NEW h \in Keys, NEW a \in Accounts, NEW c \in Credits,
             Uses(h, a, c)'
      PROVE  Uses(h, a, c) \/ (h = k /\ a = job[e].acct /\ c = job[e].credit)
  <2>1. CASE FileUses(h, a, c)'
    BY <1>1, <2>1 DEF FileUses, Uses
  <2>2. CASE ScanUses(h, a, c)'
    <3>1. PICK x \in Engines :
            /\ Carries(x)' /\ job'[x].acct = a
            /\ job'[x].attempt.key = h /\ job'[x].attempt.credit = c
      BY <2>2 DEF ScanUses
    <3>2. CASE x = e
      BY <1>1, <3>1, <3>2 DEF Carries
    <3>3. CASE x # e
      <4>1. Carries(x) /\ job[x] = job'[x]
        BY <1>1, <3>1, <3>3 DEF Carries
      <4> QED
        BY <3>1, <4>1 DEF ScanUses, Uses
    <3> QED
      BY <3>2, <3>3
  <2>3. CASE WireUses(h, a, c)' \/ wallet'[a][c] = h
    BY <1>2, <2>3 DEF WireUses, Uses
  <2> QED
    BY <1>3, <2>1, <2>2, <2>3 DEF Uses
<1>4. \A h \in Keys : outcome[h] # "unused" \/ h = k => outcome'[h] # "unused"
  BY <1>1 DEF TypeOK
<1>5. \A a \in Accounts, c \in Credits : ~Uses(k, a, c)
  BY <1>1 DEF KeysTraced
<1>6. \A h \in Keys, a \in Accounts, c \in Credits : Uses(h, a, c)' =>
        /\ outcome'[h] # "unused"
        /\ \A b \in Accounts, d \in Credits :
             Uses(h, b, d)' => a = b /\ c = d
  <2> SUFFICES ASSUME NEW h \in Keys, NEW a \in Accounts, NEW c \in Credits,
                      Uses(h, a, c)'
               PROVE  /\ outcome'[h] # "unused"
                      /\ \A b \in Accounts, d \in Credits :
                           Uses(h, b, d)' => a = b /\ c = d
    OBVIOUS
  <2>1. CASE h = k
    BY <1>3, <1>4, <1>5, <2>1
  <2>2. CASE h # k
    BY <1>3, <1>4, <2>2 DEF KeysTraced
  <2> QED
    BY <2>1, <2>2
<1> QED
  BY <1>6 DEF KeysTraced

-----------------------------------------------------------------------------
(* The open keys are those in the file.                                    *)

LEMMA OpenWhenQuiet ==
  ASSUME OpenIsHeld, QuietDisk, UNCHANGED outcome
  PROVE  OpenIsHeld'
<1>1. \A a \in Accounts, k \in Keys : Holds(a, k)' <=> Holds(a, k)
  BY DEF QuietDisk, Quiet, Continues, Holds
<1> QED
  BY <1>1 DEF OpenIsHeld

LEMMA OpenWhenPersisted ==
  ASSUME TypeOK, OpenIsHeld, NEW e \in Engines, PersistAttempt(e)
  PROVE  OpenIsHeld'
<1>1. PICK k \in Keys, p \in Attempts :
        /\ p.key = k /\ job[e].acct \in Accounts
        /\ disk[job[e].acct].pending = None
        /\ outcome[k] = "unused"
        /\ outcome' = [outcome EXCEPT ![k] = "open"]
        /\ disk'[job[e].acct].pending = p
        /\ \A x \in Accounts : x # job[e].acct => disk'[x] = disk[x]
  BY PersistEffect
<1> DEFINE a == job[e].acct
<1>2. \A b \in Accounts : Holds(b, k)' <=> b = a
  <2>1. \A b \in Accounts : ~Holds(b, k)
    BY <1>1 DEF OpenIsHeld
  <2> QED
    BY <1>1, <2>1, NoneAssumption DEF Holds
<1>3. \A h \in Keys : h # k => \A b \in Accounts : Holds(b, h)' <=> Holds(b, h)
  BY <1>1 DEF Holds
<1>4. /\ outcome'[k] = "open"
      /\ \A h \in Keys : h # k => outcome'[h] = outcome[h]
  BY <1>1 DEF TypeOK
<1>5. a \in Accounts
  BY <1>1
<1> HIDE DEF a
<1> QED
  BY <1>2, <1>3, <1>4, <1>5 DEF OpenIsHeld

LEMMA OpenWhenFailed ==
  ASSUME TypeOK, OpenIsHeld, NEW e \in Engines, ApplyFailure(e)
  PROVE  OpenIsHeld'
<1> DEFINE a == job[e].acct
           open == disk[a].pending
           s == Failed(disk[a], job[e].attempt, job[e].code = "no_credit")
<1>1. /\ a \in Accounts /\ disk[a] \in AccountStates
      /\ open = None \/ open.key \in Keys
  BY AtAttempt DEF ApplyFailure, AccountStates, Attempts
<1>2. CASE UNCHANGED <<disk, outcome>>
  BY <1>2, QuietStutter, OpenWhenQuiet
<1>3. CASE /\ disk' = [disk EXCEPT ![a] = s]
           /\ outcome' = IF open = None THEN outcome
                         ELSE [outcome EXCEPT ![open.key] = "failed"]
  <2>1. /\ disk'[a].pending = None
        /\ \A b \in Accounts : b # a => disk'[b] = disk[b]
    <3>1. s.pending = None
      BY <1>1 DEF Failed, AccountStates
    <3> HIDE DEF s
    <3> QED
      BY <1>1, <1>3, <3>1 DEF TypeOK
  <2>2. \A b \in Accounts, k \in Keys :
          Holds(b, k)' <=> Holds(b, k) /\ b # a
    BY <2>1 DEF Holds
  <2>3. \A k \in Keys : outcome'[k] = IF Holds(a, k) THEN "failed"
                                      ELSE outcome[k]
    BY <1>1, <1>3 DEF Holds, TypeOK
  <2> QED
    BY <1>1, <2>2, <2>3 DEF OpenIsHeld
<1> QED
  BY <1>2, <1>3 DEF ApplyFailure

LEMMA OpenWhenCompleted ==
  ASSUME TypeOK, OpenIsHeld, NEW e \in Engines, Complete(e)
  PROVE  OpenIsHeld'
<1> DEFINE a == job[e].acct
           k == job[e].attempt.key
           s == Succeeded(disk[a], job[e].attempt)
<1>1. a \in Accounts /\ disk[a] \in AccountStates /\ k \in Keys
  BY AtAttempt DEF Complete, Attempts
<1>2. /\ Holds(a, k) /\ disk' = [disk EXCEPT ![a] = s]
      /\ outcome' = [outcome EXCEPT ![k] = "success"]
  BY DEF Complete, Holds
<1>3. disk'[a].pending = None /\ \A b \in Accounts : b # a => disk'[b] = disk[b]
  <2>1. s.pending = None
    BY <1>1 DEF Succeeded, AccountStates
  <2> HIDE DEF s
  <2> QED
    BY <1>1, <1>2, <2>1 DEF TypeOK
<1>4. \A b \in Accounts, h \in Keys : Holds(b, h)' <=> Holds(b, h) /\ b # a
  BY <1>3 DEF Holds
<1>5. /\ outcome'[k] = "success"
      /\ \A h \in Keys : h # k => outcome'[h] = outcome[h]
  BY <1>1, <1>2 DEF TypeOK
<1>6. \A h \in Keys : Holds(a, h) => h = k
  BY <1>2 DEF Holds
<1> HIDE DEF a, k
<1> QED
  BY <1>1, <1>2, <1>4, <1>5, <1>6 DEF OpenIsHeld

-----------------------------------------------------------------------------
(* Cooldowns.                                                              *)

LEMMA ExclusionWhenQuiet ==
  ASSUME PendingExcludesCooldown, QuietDisk
  PROVE  PendingExcludesCooldown'
BY DEF PendingExcludesCooldown, QuietDisk, Quiet

LEMMA ExclusionWhenClosed ==
  ASSUME TypeOK, PendingExcludesCooldown, NEW e \in Engines,
         ApplyFailure(e) \/ Complete(e)
  PROVE  PendingExcludesCooldown'
BY CloseEffect DEF PendingExcludesCooldown

LEMMA ExclusionWhenPersisted ==
  ASSUME TypeOK, PendingExcludesCooldown, ColdKnown, NEW e \in Engines,
         PersistAttempt(e)
  PROVE  PendingExcludesCooldown'
<1>1. PICK k \in Keys, p \in Attempts :
        /\ ~job[e].cold
        /\ disk'[job[e].acct].cooling = disk[job[e].acct].cooling
        /\ \A x \in Accounts : x # job[e].acct => disk'[x] = disk[x]
  BY PersistEffect
<1>2. ~disk[job[e].acct].cooling
  BY <1>1 DEF ColdKnown, PersistAttempt
<1> QED
  BY <1>1, <1>2 DEF PendingExcludesCooldown

NoNewCooling == \A a \in Accounts : disk'[a].cooling => disk[a].cooling

\* ColdKnown for one engine, at stage p with job j.
KnowsCold(p, j) ==
  /\ p \in {"credits", "recheck", "persist"} => j.plan = "fresh"
  /\ /\ p \in {"usage", "credits", "recheck", "persist"}
     /\ j.plan = "fresh"
     /\ disk[j.acct].cooling
     => j.cold

LEMMA ColdMove ==
  ASSUME TypeOK, ColdKnown, NoNewCooling, NEW e \in Engines, NEW p, NEW j,
         Goto(e, p), SetJob(e, j), KnowsCold(p, j),
         p \in {"usage", "credits", "recheck", "persist"} => j.acct \in Accounts
  PROVE  ColdKnown'
<1>1. \A x \in Engines :
        /\ x = e => pc'[x] = p /\ job'[x] = j
        /\ x # e => pc'[x] = pc[x] /\ job'[x] = job[x]
  BY DEF Goto, SetJob, TypeOK, EngineTypeOK
<1>2. \A x \in Engines :
        /\ KnowsCold(pc[x], job[x])
        /\ pc[x] \in {"usage", "credits", "recheck", "persist"}
             => job[x].acct \in Accounts
  BY DEF ColdKnown, KnowsCold, TypeOK, EngineTypeOK, StageFits
<1>3. \A x \in Engines :
        /\ KnowsCold(pc'[x], job'[x])
        /\ pc'[x] \in {"usage", "credits", "recheck", "persist"}
             => job'[x].acct \in Accounts
  BY <1>1, <1>2
<1> QED
  BY <1>3 DEF NoNewCooling, KnowsCold, ColdKnown

\* A step to a stage that writes no attempt.
LEMMA ColdElsewhere ==
  ASSUME TypeOK, ColdKnown, NoNewCooling, NEW e \in Engines, NEW p,
         p \notin {"usage", "credits", "recheck", "persist"}, Goto(e, p),
         UNCHANGED job \/ \E j : SetJob(e, j)
  PROVE  ColdKnown'
<1>1. \A j : KnowsCold(p, j)
  BY DEF KnowsCold
<1>2. \E j : SetJob(e, j)
  <2>1. UNCHANGED job => SetJob(e, job[e])
    BY DEF SetJob, TypeOK, EngineTypeOK
  <2> QED
    BY <2>1
<1> QED
  BY <1>1, <1>2, ColdMove

LEMMA ColdStays ==
  ASSUME TypeOK, ColdKnown, NoNewCooling, UNCHANGED <<pc, job>>
  PROVE  ColdKnown'
BY DEF ColdKnown, NoNewCooling, TypeOK, EngineTypeOK, StageFits

\* A step along the way to a new attempt keeps the plan and the cooldown.
LEMMA ColdOnward ==
  ASSUME TypeOK, ColdKnown, NoNewCooling, NEW e \in Engines, NEW p, NEW j,
         pc[e] \in {"usage", "credits", "recheck"}, job[e].plan = "fresh",
         Goto(e, p), SetJob(e, j),
         j.acct = job[e].acct, j.plan = job[e].plan, j.cold = job[e].cold
  PROVE  ColdKnown'
<1>1. KnowsCold(p, j)
  BY DEF KnowsCold, ColdKnown
<1>2. j.acct \in Accounts
  BY DEF TypeOK, EngineTypeOK, StageFits
<1> QED
  BY <1>1, <1>2, ColdMove

LEMMA ColdLoad ==
  ASSUME TypeOK, ColdKnown, NEW e \in Engines, LoadAccount(e)
  PROVE  ColdKnown'
<1>1. job[e] \in Jobs /\ pc[e] = "next" /\ NoNewCooling
  BY DEF TypeOK, EngineTypeOK, LoadAccount, NoNewCooling
<1>2. PICK a \in job[e].todo :
        LET rest == [job[e] EXCEPT !.todo = @ \ {a}]
            s == disk[a]
            plan == Plan(s, a \in job[e].off)
        IN \/ /\ s.present # "unknown"
              /\ Goto(e, "usage")
              /\ SetJob(e, [rest EXCEPT
                   !.acct = a,
                   !.plan = plan,
                   !.tomb = s.tomb,
                   !.avoid = IF s.backoff = None THEN None ELSE s.backoff.fp,
                   !.cold = s.cooling,
                   !.attempt = IF plan = "resolve" THEN s.pending ELSE None])
           \/ SetJob(e, rest) /\ UNCHANGED pc
  BY DEF LoadAccount
<1> DEFINE rest == [job[e] EXCEPT !.todo = @ \ {a}]
           s == disk[a]
           plan == Plan(s, a \in job[e].off)
           full == [rest EXCEPT
                   !.acct = a,
                   !.plan = plan,
                   !.tomb = s.tomb,
                   !.avoid = IF s.backoff = None THEN None ELSE s.backoff.fp,
                   !.cold = s.cooling,
                   !.attempt = IF plan = "resolve" THEN s.pending ELSE None]
<1>3. a \in Accounts /\ full.acct = a /\ full.cold = disk[a].cooling
  BY <1>1 DEF Jobs
<1>4. \/ SetJob(e, full) /\ Goto(e, "usage")
      \/ SetJob(e, rest) /\ UNCHANGED pc
  BY <1>2
<1> HIDE DEF full, rest
<1>5. CASE SetJob(e, full) /\ Goto(e, "usage")
  <2>1. KnowsCold("usage", full)
    BY <1>3 DEF KnowsCold
  <2> QED
    BY <1>1, <1>3, <1>5, <2>1, ColdMove
<1>6. CASE SetJob(e, rest) /\ UNCHANGED pc
  <2>1. Goto(e, "next")
    BY <1>1, <1>6 DEF Goto, TypeOK, EngineTypeOK
  <2> QED
    BY <1>1, <1>6, <2>1, ColdElsewhere
<1> QED
  BY <1>4, <1>5, <1>6

\* The steps of an engine that record no success.

\* The steps of an engine that record no success.
LEMMA ColdScan ==
  ASSUME TypeOK, ColdKnown, NoNewCooling, NEW e \in Engines,
         Discover(e) \/ ScanStep(e) \/ LifeStep(e), ~Complete(e)
  PROVE  ColdKnown'
<1>1. job[e] \in Jobs
  BY DEF TypeOK, EngineTypeOK
<1>2. CASE UsageReply(e)
  <2>1. /\ pc[e] = "usage"
        /\ job[e].plan \in {"skip", "clear", "wait", "resolve", "fresh"}
    BY <1>1, <1>2 DEF UsageReply, Jobs
  <2>2. \/ \E p \in {"next", "clear", "vcredits"} :
             Goto(e, p) /\ \E j : SetJob(e, j)
        \/ /\ job[e].plan = "fresh" /\ Goto(e, "credits")
           /\ \E l, w : SetJob(e, [job[e] EXCEPT !.usage = l, !.window = w])
    <3>1. CASE job[e].plan = "skip"
      BY <1>2, <3>1 DEF UsageReply, Leave
    <3>2. CASE job[e].plan = "clear" \/ job[e].plan = "wait"
      BY <1>2, <3>2 DEF UsageReply, Leave
    <3>3. CASE job[e].plan = "resolve"
      BY <1>2, <3>3 DEF UsageReply
    <3>4. CASE job[e].plan = "fresh"
      BY <1>2, <3>4 DEF UsageReply
    <3> QED
      BY <2>1, <3>1, <3>2, <3>3, <3>4
  <2>3. ASSUME NEW l, NEW w,
               SetJob(e, [job[e] EXCEPT !.usage = l, !.window = w]),
               job[e].plan = "fresh", Goto(e, "credits")
        PROVE  ColdKnown'
    <3> DEFINE j == [job[e] EXCEPT !.usage = l, !.window = w]
    <3>1. SetJob(e, j)
      BY <2>3
    <3>2. j.acct = job[e].acct /\ j.plan = job[e].plan /\ j.cold = job[e].cold
      BY <1>1 DEF Jobs
    <3> HIDE DEF j
    <3> QED
      BY <2>1, <2>3, <3>1, <3>2, ColdOnward
  <2> QED
    BY <2>2, <2>3, ColdElsewhere
<1>3. CASE CreditsReply(e)
  <2> DEFINE c == FirstUsable(Available(job[e].acct), job[e].tomb)
             j == [job[e] EXCEPT !.credit = c]
  <2>1. /\ pc[e] = "credits"
        /\ Leave(e) \/ (Goto(e, "recheck") /\ SetJob(e, j))
    BY <1>3 DEF CreditsReply, TransientFailure
  <2>2. j.acct = job[e].acct /\ j.plan = job[e].plan /\ j.cold = job[e].cold
    BY <1>1 DEF Jobs
  <2>3. job[e].plan = "fresh"
    BY <2>1 DEF ColdKnown
  <2> HIDE DEF j
  <2> QED
    BY <2>1, <2>2, <2>3, ColdElsewhere, ColdOnward DEF Leave
<1>4. CASE RecheckReply(e)
  <2> DEFINE fp == Fingerprint(job[e].acct, job[e].credit, job[e].window)
             j == [job[e] EXCEPT !.fp = fp]
  <2>1. /\ pc[e] = "recheck"
        /\ Leave(e) \/ (Goto(e, "persist") /\ SetJob(e, j))
    BY <1>4 DEF RecheckReply, TransientFailure
  <2>2. j.acct = job[e].acct /\ j.plan = job[e].plan /\ j.cold = job[e].cold
    BY <1>1 DEF Jobs
  <2>3. job[e].plan = "fresh"
    BY <2>1 DEF ColdKnown
  <2> HIDE DEF j
  <2> QED
    BY <2>1, <2>2, <2>3, ColdElsewhere, ColdOnward DEF Leave
<1>5. CASE PersistAttempt(e)
  <2>1. \E p \in {"next", "consume"} : Goto(e, p) /\ \E j : SetJob(e, j)
    BY <1>5 DEF PersistAttempt, Leave
  <2> QED
    BY <2>1, ColdElsewhere
<1>6. CASE VerifyCredits(e) \/ VerifyUsage(e)
  <2>1. \E p \in {"next", "vusage", "complete", "settle", "consume"} :
          Goto(e, p) /\ (UNCHANGED job \/ \E j : SetJob(e, j))
    <3>1. CASE VerifyCredits(e)
      BY <3>1 DEF VerifyCredits, Bump, Leave
    <3>2. CASE VerifyUsage(e)
      BY <3>2 DEF VerifyUsage, Bump, Leave
    <3> QED
      BY <1>6, <3>1, <3>2
  <2> QED
    BY <2>1, ColdElsewhere
<1>7. CASE Discover(e) \/ Reconcile(e) \/ FinishScan(e) \/ SendConsume(e)
           \/ SendFails(e) \/ GiveUp(e) \/ ResetQuota(e)
  <2>1. \E p \in {"reconcile", "next", "idle", "await", "settle", "cleared"} :
          Goto(e, p) /\ (UNCHANGED job \/ \E j : SetJob(e, j))
    BY <1>7 DEF Discover, Reconcile, FinishScan, SendConsume, SendFails,
       GiveUp, ResetQuota
  <2> QED
    BY <2>1, ColdElsewhere
<1>8. CASE PersistRefused(e) \/ MarkAmbiguous(e) \/ ApplyFailure(e)
           \/ CompleteFails(e) \/ RecordClear(e)
  <2>1. Goto(e, "next") /\ SetJob(e, Left(e))
    BY <1>8 DEF PersistRefused, MarkAmbiguous, ApplyFailure, CompleteFails,
       RecordClear, Leave
  <2> QED
    BY <2>1, ColdElsewhere
<1>9. CASE LifeStep(e)
  <2>1. \/ UNCHANGED <<pc, job>>
        \/ Goto(e, "idle") /\ SetJob(e, NoJob)
    BY <1>9 DEF LifeStep, RequestStop, Cancel, Crash, Restart
  <2> QED
    BY <2>1, ColdStays, ColdElsewhere
<1> QED
  BY <1>2, <1>3, <1>4, <1>5, <1>6, <1>7, <1>8, <1>9, ColdLoad DEF ScanStep

LEMMA ColdWorld ==
  ASSUME TypeOK, ColdKnown, NoNewCooling,
         ClockStep \/ WorldStep \/ UNCHANGED vars
  PROVE  ColdKnown'
<1>1. CASE UNCHANGED <<pc, job>>
  BY <1>1, ColdStays
<1>2. ASSUME NEW m \in wire, Execute(m)
      PROVE  ColdKnown'
  <2>1. m.eng \in Engines
    BY DEF TypeOK, Requests
  <2>2. \/ UNCHANGED <<pc, job>>
        \/ \E p \in {"complete", "settle"} :
             Goto(m.eng, p) /\ (UNCHANGED job \/ \E j : SetJob(m.eng, j))
    BY <1>2 DEF Execute
  <2> QED
    BY <2>1, <2>2, ColdStays, ColdElsewhere
<1>3. UNCHANGED <<pc, job>> \/ \E m \in wire : Execute(m)
  BY DEF ClockStep, WorldStep, MgmtCooldownElapses, CooldownElapses,
     BackoffElapses, ClearFallsDue, SetParticipation, HostChanges,
     CreditGranted, CreditLeaves, WindowRolls, engineVars, vars
<1> QED
  BY <1>1, <1>2, <1>3

\* The scan that records a success tells the others: the cooldown it writes is
\* later than their clocks.
LEMMA ColdComplete ==
  ASSUME TypeOK, ColdKnown, NEW e \in Engines, Complete(e)
  PROVE  ColdKnown'
<1> DEFINE a == job[e].acct
<1>1. PICK stage \in {"clear", "next"} :
        /\ Goto(e, stage)
        /\ job' = [x \in Engines |->
             IF x = e THEN IF stage = "clear" THEN job[e] ELSE Left(e)
             ELSE IF job[x].acct = a /\ job[x].plan = "fresh"
                  THEN [job[x] EXCEPT !.cold = TRUE]
             ELSE job[x]]
  BY DEF Complete
<1>2. \A b \in Accounts : b # a => disk'[b] = disk[b]
  <2>1. \E s : disk' = [disk EXCEPT ![a] = s]
    BY DEF Complete
  <2> QED
    BY <2>1 DEF TypeOK
<1> HIDE DEF a
<1>3. ASSUME NEW x \in Engines
      PROVE  /\ pc'[x] \in {"credits", "recheck", "persist"}
                  => job'[x].plan = "fresh"
             /\ /\ pc'[x] \in {"usage", "credits", "recheck", "persist"}
                /\ job'[x].plan = "fresh"
                /\ disk'[job'[x].acct].cooling
                => job'[x].cold
  <2>1. CASE x = e
    <3>1. pc'[x] = stage
      BY <1>1, <2>1 DEF Goto, TypeOK, EngineTypeOK
    <3> QED
      BY <3>1
  <2>2. CASE x # e
    <3>1. pc'[x] = pc[x] /\ job[x] \in Jobs
      BY <1>1, <2>2 DEF Goto, TypeOK, EngineTypeOK
    <3>2. CASE job[x].acct = a /\ job[x].plan = "fresh"
      <4>1. job'[x] = [job[x] EXCEPT !.cold = TRUE]
        BY <1>1, <2>2, <3>2
      <4>2. job'[x].cold /\ job'[x].plan = "fresh"
        BY <3>1, <3>2, <4>1 DEF Jobs
      <4> QED
        BY <4>2
    <3>3. CASE ~(job[x].acct = a /\ job[x].plan = "fresh")
      <4>1. job'[x] = job[x]
        BY <1>1, <2>2, <3>3
      <4>2. pc[x] \in {"usage", "credits", "recheck", "persist"}
              => job[x].acct \in Accounts
        BY DEF TypeOK, EngineTypeOK, StageFits
      <4> QED
        BY <1>2, <3>1, <3>3, <4>1, <4>2 DEF ColdKnown
    <3> QED
      BY <3>2, <3>3
  <2> QED
    BY <2>1, <2>2
<1> QED
  BY <1>3 DEF ColdKnown

LEMMA NoNewCoolingHolds ==
  ASSUME TypeOK,
         \/ QuietDisk
         \/ \E e \in Engines : PersistAttempt(e) \/ ApplyFailure(e)
  PROVE  NoNewCooling
<1>1. CASE QuietDisk
  BY <1>1 DEF QuietDisk, Quiet, NoNewCooling
<1>2. ASSUME NEW e \in Engines, PersistAttempt(e)
      PROVE  NoNewCooling
  BY <1>2, PersistEffect DEF NoNewCooling
<1>3. ASSUME NEW e \in Engines, ApplyFailure(e)
      PROVE  NoNewCooling
  <2> DEFINE a == job[e].acct
             s == Failed(disk[a], job[e].attempt, job[e].code = "no_credit")
  <2>1. a \in Accounts /\ disk[a] \in AccountStates
    BY <1>3, AtAttempt DEF ApplyFailure
  <2>2. s.cooling = disk[a].cooling
    BY <2>1 DEF Failed, AccountStates
  <2>3. disk' = disk \/ disk' = [disk EXCEPT ![a] = s]
    BY <1>3 DEF ApplyFailure
  <2> HIDE DEF s, a
  <2> QED
    BY <2>1, <2>2, <2>3 DEF NoNewCooling, TypeOK
<1> QED
  BY <1>1, <1>2, <1>3

-----------------------------------------------------------------------------
(* The theorems.                                                           *)

\* A step is quiet, or it opens or closes an attempt.
LEMMA StepCases ==
  ASSUME TypeOK, [Next]_vars
  PROVE  \/ QuietDisk /\ UNCHANGED outcome /\ AllCarried
         \/ \E e \in Engines : PersistAttempt(e)
         \/ \E e \in Engines : (ApplyFailure(e) \/ Complete(e)) /\ AllCarried
<1>1. CASE ClockStep \/ WorldStep \/ UNCHANGED vars
  BY <1>1, QuietWorld, CarriedWorld
<1>2. ASSUME NEW e \in Engines, Discover(e) \/ ScanStep(e) \/ LifeStep(e)
      PROVE  \/ QuietDisk /\ UNCHANGED outcome /\ AllCarried
             \/ PersistAttempt(e)
             \/ (ApplyFailure(e) \/ Complete(e)) /\ AllCarried
  BY <1>2, QuietScan, CarriedScan
<1> QED
  BY <1>1, <1>2 DEF Next

LEMMA InitInvariant == Init => IInv
<1> SUFFICES ASSUME Init PROVE IInv
  OBVIOUS
<1>1. TypeOK
  BY InitType
<1>2. \A a \in Accounts : disk[a].pending = None /\ ~disk[a].cooling
  BY DEF Init, NewAccount
<1>3. \A k \in Keys, a \in Accounts, c \in Credits : ~Uses(k, a, c)
  <2>1. \A e \in Engines : ~Carries(e)
    BY DEF Init, Carries
  <2> QED
    BY <1>2, <2>1, KeysAssumption
       DEF Init, Uses, FileUses, ScanUses, WireUses
<1>4. KeysTraced
  BY <1>3 DEF KeysTraced
<1>5. OpenIsHeld
  BY <1>2 DEF Init, OpenIsHeld, Holds
<1>6. PendingExcludesCooldown /\ ColdKnown
  BY <1>2 DEF Init, PendingExcludesCooldown, ColdKnown
<1> QED
  BY <1>1, <1>4, <1>5, <1>6 DEF IInv

LEMMA NextInvariant == IInv /\ [Next]_vars => IInv'
<1> SUFFICES ASSUME IInv, [Next]_vars PROVE IInv'
  OBVIOUS
<1>0. TypeOK /\ KeysTraced /\ OpenIsHeld /\ PendingExcludesCooldown /\ ColdKnown
  BY DEF IInv
<1>1. TypeOK'
  BY <1>0, NextType
<1>2. CASE QuietDisk /\ UNCHANGED outcome /\ AllCarried
  <2>1. KeysTraced'
    BY <1>0, <1>2, TracedOtherwise
  <2>2. OpenIsHeld' /\ PendingExcludesCooldown'
    BY <1>0, <1>2, OpenWhenQuiet, ExclusionWhenQuiet
  <2>3. NoNewCooling
    BY <1>0, <1>2, NoNewCoolingHolds
  <2>4. CASE \E e \in Engines : Complete(e)
    BY <1>0, <2>4, ColdComplete, <1>1, <2>1, <2>2 DEF IInv
  <2>5. CASE ~\E e \in Engines : Complete(e)
    <3>1. ColdKnown'
      BY <1>0, <2>3, <2>5, ColdScan, ColdWorld DEF Next
    <3> QED
      BY <1>1, <2>1, <2>2, <3>1 DEF IInv
  <2> QED
    BY <2>4, <2>5
<1>3. ASSUME NEW e \in Engines, PersistAttempt(e)
      PROVE  IInv'
  <2>1. KeysTraced'
    BY <1>0, <1>3, TracedWhenPersisted
  <2>2. OpenIsHeld' /\ PendingExcludesCooldown'
    BY <1>0, <1>3, OpenWhenPersisted, ExclusionWhenPersisted
  <2>3. NoNewCooling
    BY <1>0, <1>3, NoNewCoolingHolds
  <2>4. ~Complete(e)
    BY <1>3 DEF PersistAttempt, Complete
  <2>5. ColdKnown'
    BY <1>0, <1>3, <2>3, <2>4, ColdScan DEF ScanStep
  <2> QED
    BY <1>1, <2>1, <2>2, <2>5 DEF IInv
<1>4. ASSUME NEW e \in Engines, ApplyFailure(e) \/ Complete(e), AllCarried
      PROVE  IInv'
  <2>1. KeysTraced'
    BY <1>0, <1>4, TracedOtherwise
  <2>2. OpenIsHeld'
    BY <1>0, <1>4, OpenWhenFailed, OpenWhenCompleted
  <2>3. PendingExcludesCooldown'
    BY <1>0, <1>4, ExclusionWhenClosed
  <2>4. ColdKnown'
    <3>1. CASE Complete(e)
      BY <1>0, <3>1, ColdComplete
    <3>2. CASE ApplyFailure(e)
      <4>1. NoNewCooling
        BY <1>0, <3>2, NoNewCoolingHolds
      <4>2. ~Complete(e)
        BY <3>2 DEF ApplyFailure, Complete
      <4> QED
        BY <1>0, <3>2, <4>1, <4>2, ColdScan DEF ScanStep
    <3> QED
      BY <1>4, <3>1, <3>2
  <2> QED
    BY <1>1, <2>1, <2>2, <2>3, <2>4 DEF IInv
<1> QED
  BY <1>0, <1>2, <1>3, <1>4, StepCases

\* The inductive invariant of the engine holds for any number of engines.
THEOREM Invariance == Spec => []IInv
<1>1. Init => IInv
  BY InitInvariant
<1>2. IInv /\ [Next]_vars => IInv'
  BY NextInvariant
<1> QED
  BY <1>1, <1>2, PTL DEF Spec

\* The attempt is on disk before its request is on the wire or its credit is
\* redeemed, and stays there until it has an outcome.
THEOREM WriteAheadHolds == Spec => []WriteAhead
<1>1. IInv => WriteAhead
  <2> SUFFICES ASSUME IInv PROVE WriteAhead
    OBVIOUS
  <2>1. ASSUME NEW m \in wire
        PROVE  outcome[m.key] # "unused"
    <3>1. m.key \in Keys /\ m.acct \in Accounts /\ m.credit \in Credits
      BY DEF IInv, TypeOK, Requests
    <3>2. Uses(m.key, m.acct, m.credit)
      BY DEF Uses, WireUses
    <3> QED
      BY <3>1, <3>2 DEF IInv, KeysTraced
  <2>2. \A a \in Accounts, c \in Credits :
          wallet[a][c] \in Keys => outcome[wallet[a][c]] # "unused"
    BY DEF IInv, KeysTraced, Uses
  <2> QED
    BY <2>1, <2>2 DEF IInv, WriteAhead
<1> QED
  BY <1>1, Invariance, PTL

\* One key never redeems two credits, however often its request is sent, by
\* however many engines, and however late it arrives.
THEOREM OneCreditPerKeyHolds == Spec => []OneCreditPerKey
<1>1. IInv => OneCreditPerKey
  BY DEF IInv, KeysTraced, Uses, OneCreditPerKey
<1> QED
  BY <1>1, Invariance, PTL

\* No attempt is open while the account cools down after a success.
THEOREM PendingExcludesCooldownHolds == Spec => []PendingExcludesCooldown
<1>1. IInv => PendingExcludesCooldown
  BY DEF IInv
<1> QED
  BY <1>1, Invariance, PTL

\* An open attempt is never replaced, and its credit and key never change.
THEOREM AttemptStableHolds == Spec => AttemptStable
<1> DEFINE Stable == \A a \in Accounts :
             disk[a].pending # None /\ disk'[a].pending # None
               => Continues(disk[a].pending, disk'[a].pending)
<1>1. TypeOK /\ [Next]_vars => [Stable]_vars
  <2> SUFFICES ASSUME TypeOK, [Next]_vars PROVE Stable
    OBVIOUS
  <2>1. CASE QuietDisk
    BY <2>1 DEF QuietDisk, Quiet
  <2>2. ASSUME NEW e \in Engines, PersistAttempt(e)
        PROVE  Stable
    <3>1. \A x \in Accounts : x # job[e].acct => disk'[x] = disk[x]
      BY <2>2, PersistEffect
    <3>2. disk[job[e].acct].pending = None
      BY <2>2, PersistEffect
    <3>3. \A x \in Accounts : Quiet(disk[x], disk[x])
      BY QuietSame DEF TypeOK
    <3> QED
      BY <3>1, <3>2, <3>3 DEF Quiet
  <2>3. ASSUME NEW e \in Engines, ApplyFailure(e) \/ Complete(e)
        PROVE  Stable
    <3>1. \A x \in Accounts : disk'[x] = disk[x] \/ disk'[x].pending = None
      BY <2>3, CloseEffect
    <3>2. \A x \in Accounts : Quiet(disk[x], disk[x])
      BY QuietSame DEF TypeOK
    <3> QED
      BY <3>1, <3>2 DEF Quiet
  <2> QED
    BY <2>1, <2>2, <2>3, StepCases
<1> QED
  BY <1>1, TypeCorrect, PTL DEF Spec, AttemptStable
==============================================================================
