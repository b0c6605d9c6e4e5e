------------------------ MODULE ResetEngineSoloProofs ------------------------
(***************************************************************************)
(* What the reset engine guarantees when it is alone on its state          *)
(* directory: a success is cleared locally, a clear is never made under an *)
(* open attempt, the cooldown is kept. When moreover a request it has      *)
(* given up on never reaches the service later, nothing redeemed is        *)
(* forgotten. For any accounts, credits, keys and bounds.                  *)
(***************************************************************************)
EXTENDS ResetEngineSafetyProofs

OneEngine == \A e, f \in Engines : e = f
Solo == LateRequests = FALSE /\ OneEngine

-----------------------------------------------------------------------------
(* The invariant.                                                          *)

Between == {"idle", "reconcile", "next"}
CarryStages == {"consume", "await", "settle", "vcredits", "vusage", "complete"}

\* What a scan at stage p with the local variables j relies on in the file, in
\* the service's books and in the global cooldown.
Carrying(p, j) == p \in CarryStages \/ (p = "usage" /\ j.plan = "resolve")

Deciding(p, j) ==
  p \in {"credits", "recheck", "persist"} \/ (p = "usage" /\ j.plan = "fresh")

Clearing(p, j) ==
  p \in {"clear", "cleared"} \/ (p = "usage" /\ j.plan \in {"clear", "wait"})

\* The attempt it carries is the one on file.
KnowsAttempt(p, j) ==
  Carrying(p, j) =>
    /\ disk[j.acct].pending # None
    /\ disk[j.acct].pending.key = j.attempt.key
    /\ disk[j.acct].pending.credit = j.attempt.credit

\* An attempt about to be written off, or found listed, was not redeemed, unless
\* a late request made it so.
Refused(p, j) ==
  (p = "settle" /\ j.code # "error") \/ (p = "vusage" /\ j.code = "listed")

KnowsRefusal(p, j) ==
  LateRequests = FALSE /\ Refused(p, j)
    => wallet[j.acct][j.attempt.credit] # j.attempt.key

\* A new attempt is prepared while no clear is owed, for a credit without a
\* tombstone; a clear is made while no attempt is open, and done once it was
\* answered.
KnowsAccount(p, j) ==
  /\ Deciding(p, j) => disk[j.acct].clear = "none" /\ j.tomb = disk[j.acct].tomb
  /\ p \in {"recheck", "persist"} => j.credit \notin j.tomb
  /\ Clearing(p, j) => disk[j.acct].pending = None
  /\ p = "cleared" /\ j.code = "ok" => ~owed[j.acct]

\* The accounts of the scan were found by the discovery it began with.
KnowsPresence(p, j) ==
  /\ p \notin {"idle", "reconcile"} =>
       \A a \in j.todo : disk[a].present = "present"
  /\ p \notin Between => disk[j.acct].present = "present"

\* Past the early returns the management API does not cool down.
KnowsCooldown(p, j) ==
  p \notin Between /\ (p = "usage" => j.plan # "skip") => ~mgmtCooling

Knows(p, j) ==
  /\ KnowsAttempt(p, j) /\ KnowsRefusal(p, j) /\ KnowsAccount(p, j)
  /\ KnowsPresence(p, j) /\ KnowsCooldown(p, j)

AllKnow == \A e \in Engines : Knows(pc[e], job[e])

\* The request on its way is the one the engine waits for, if none is late.
WireAwaited ==
  LateRequests = FALSE => \A m \in wire :
    /\ pc[m.eng] = "await"
    /\ m.acct = job[m.eng].acct
    /\ m.key = job[m.eng].attempt.key
    /\ m.credit = job[m.eng].attempt.credit
    /\ m.try = job[m.eng].attempt.count

\* An open attempt is for a credit without a tombstone.
OpenUntombed ==
  \A a \in Accounts :
    disk[a].pending # None => disk[a].pending.credit \notin disk[a].tomb

FileSound == OpenUntombed /\ ClearExcludesPending /\ LocalClearOwed

BooksSound == LateRequests = FALSE => NoForgottenRedemption

SoloInv == IInv /\ AllKnow /\ WireAwaited /\ FileSound /\ BooksSound

LEMMA SoloInit == Init => SoloInv
<1> SUFFICES ASSUME Init PROVE SoloInv
  OBVIOUS
<1>1. IInv
  BY InitInvariant
<1>2. AllKnow
  BY DEF Init, AllKnow, Knows, KnowsAttempt, KnowsRefusal, Refused, KnowsAccount,
     KnowsPresence, KnowsCooldown, Carrying, Deciding, Clearing, CarryStages,
     Between
<1>3. WireAwaited /\ FileSound
  BY DEF Init, WireAwaited, FileSound, OpenUntombed, ClearExcludesPending,
     LocalClearOwed, NewAccount
<1>4. BooksSound
  BY KeysAssumption DEF Init, BooksSound, NoForgottenRedemption
<1> QED
  BY <1>1, <1>2, <1>3, <1>4 DEF SoloInv

-----------------------------------------------------------------------------
(* Steps that leave the file as it is, but for backoffs, counts and the    *)
(* retry time of a clear.                                                  *)

Alike(s, t) ==
  /\ Quiet(s, t)
  /\ t.tomb = s.tomb /\ t.present = s.present
  /\ t.clear = "none" <=> s.clear = "none"

AlikeDisk == \A a \in Accounts : Alike(disk[a], disk'[a])

LEMMA AlikeSame ==
  ASSUME NEW s \in AccountStates
  PROVE  Alike(s, s)
BY QuietSame DEF Alike

LEMMA AlikeStutter ==
  ASSUME TypeOK, UNCHANGED disk
  PROVE  AlikeDisk
BY AlikeSame DEF AlikeDisk, TypeOK

LEMMA AlikeUpdate ==
  ASSUME TypeOK, NEW a \in Accounts, NEW s, Alike(disk[a], s), Update(a, s)
  PROVE  AlikeDisk
<1>1. \A x \in Accounts : disk[x] \in AccountStates
  BY DEF TypeOK
<1>2. \A x \in Accounts : disk'[x] = disk[x] \/ (x = a /\ disk'[x] = s)
  BY DEF Update, TypeOK
<1> QED
  BY <1>1, <1>2, AlikeSame DEF AlikeDisk

LEMMA AlikeBump ==
  ASSUME TypeOK, NEW e \in Engines, Bump(e),
         pc[e] \in {"settle", "vcredits", "vusage"}
  PROVE  AlikeDisk
<1> DEFINE a == job[e].acct
           s == Ambiguous(disk[a], job[e].attempt)
<1>1. a \in Accounts /\ disk[a] \in AccountStates
  BY AtAttempt
<1>2. Quiet(disk[a], s) /\ Update(a, s)
  BY <1>1, QuietAmbiguous DEF Bump
<1>3. s.tomb = disk[a].tomb /\ s.present = disk[a].present
      /\ s.clear = disk[a].clear
  BY <1>1 DEF Ambiguous, AccountStates
<1> HIDE DEF a, s
<1> QED
  BY <1>1, <1>2, <1>3, AlikeUpdate DEF Alike

LEMMA AlikeTransient ==
  ASSUME TypeOK, NEW e \in Engines, TransientFailure(e),
         pc[e] \in {"credits", "recheck"}
  PROVE  AlikeDisk
<1> DEFINE a == job[e].acct
           s == [disk[a] EXCEPT !.backoff = RunningBackoff(None)]
<1>1. a \in Accounts /\ disk[a] \in AccountStates
  BY AtAccount
<1>2. /\ s.pending = disk[a].pending /\ s.cooling = disk[a].cooling
      /\ s.tomb = disk[a].tomb /\ s.present = disk[a].present
      /\ s.clear = disk[a].clear
  BY <1>1 DEF AccountStates
<1>3. Update(a, s)
  BY DEF TransientFailure
<1> HIDE DEF a, s
<1> QED
  BY <1>1, <1>2, <1>3, QuietFields, AlikeUpdate DEF Alike

\* No credit is redeemed by the step.
NothingRedeemed ==
  \A a \in Accounts, c \in Credits :
    wallet'[a][c] \in Keys => wallet'[a][c] = wallet[a][c]

\* What a scan relies on outlives such a step.
LEMMA KnowsKept ==
  ASSUME TypeOK, NEW p \in Stages, NEW j \in Jobs, StageFits(p, j), Knows(p, j),
         AlikeDisk, mgmtCooling' => mgmtCooling, NothingRedeemed,
         \A a \in Accounts : owed'[a] => owed[a]
  PROVE  Knows(p, j)'
<1>1. p \notin Between => j.acct \in Accounts
  BY DEF StageFits, Between
<1>2. ASSUME p \notin Between
      PROVE  Alike(disk[j.acct], disk'[j.acct])
  BY <1>1, <1>2 DEF AlikeDisk
<1>3. Carrying(p, j) \/ Deciding(p, j) \/ Clearing(p, j) => p \notin Between
  BY DEF Carrying, Deciding, Clearing, CarryStages, Between
<1>4. KnowsAttempt(p, j)'
  BY <1>2, <1>3 DEF Knows, KnowsAttempt, Alike, Quiet, Continues
<1>5. KnowsRefusal(p, j)'
  <2> SUFFICES ASSUME LateRequests = FALSE, Refused(p, j)
               PROVE  wallet'[j.acct][j.attempt.credit] # j.attempt.key
    BY DEF KnowsRefusal
  <2>1. /\ j.acct \in Accounts /\ j.attempt.credit \in Credits
        /\ j.attempt.key \in Keys
    BY DEF Refused, StageFits, Attempts
  <2> QED
    BY <2>1 DEF Knows, KnowsRefusal, Refused, NothingRedeemed
<1>6. KnowsAccount(p, j)'
  BY <1>1, <1>2, <1>3 DEF Knows, KnowsAccount, Alike, Quiet, Between
<1>7. KnowsPresence(p, j)'
  <2>1. j.todo \subseteq Accounts
    BY DEF Jobs
  <2> QED
    BY <1>2, <2>1 DEF Knows, KnowsPresence, AlikeDisk, Alike
<1>8. KnowsCooldown(p, j)'
  BY DEF Knows, KnowsCooldown
<1> QED
  BY <1>4, <1>5, <1>6, <1>7, <1>8 DEF Knows

LEMMA FileSoundKept ==
  ASSUME FileSound, AlikeDisk, \A a \in Accounts : owed'[a] => owed[a]
  PROVE  FileSound'
BY DEF FileSound, OpenUntombed, ClearExcludesPending, LocalClearOwed, AlikeDisk,
   Alike, Quiet, Continues

LEMMA BooksKept ==
  ASSUME BooksSound, NothingRedeemed, UNCHANGED outcome
  PROVE  BooksSound'
BY DEF BooksSound, NoForgottenRedemption, NothingRedeemed

-----------------------------------------------------------------------------
(* Steps of a scan that change nothing else.                               *)

Rest == AllKnow /\ WireAwaited /\ FileSound /\ BooksSound

\* Nothing is on its way while the engine does not wait for it.
LEMMA WireEmpty ==
  ASSUME OneEngine, LateRequests = FALSE, SoloInv,
         NEW e \in Engines, pc[e] # "await"
  PROVE  wire = {}
BY DEF OneEngine, SoloInv, IInv, TypeOK, WireAwaited, Requests

LEMMA SoloMove ==
  ASSUME OneEngine, TypeOK, TypeOK', NEW e \in Engines, NEW p, NEW j,
         Goto(e, p), SetJob(e, j), Knows(p, j),
         AlikeDisk, mgmtCooling' => mgmtCooling, UNCHANGED wallet,
         \A a \in Accounts : owed'[a] => owed[a]
  PROVE  AllKnow'
<1>1. pc'[e] = p /\ job'[e] = j
  BY DEF Goto, SetJob, TypeOK, EngineTypeOK
<1>2. p \in Stages /\ j \in Jobs /\ StageFits(p, j)
  BY <1>1 DEF TypeOK, EngineTypeOK
<1>3. Knows(p, j)'
  BY <1>2, KnowsKept DEF NothingRedeemed
<1>4. Knows(pc[e], job[e])'
  BY <1>1, <1>3 DEF Knows, KnowsAttempt, KnowsRefusal, Refused, KnowsAccount,
     KnowsPresence, KnowsCooldown
<1> QED
  BY <1>4 DEF AllKnow, OneEngine

LEMMA SoloStay ==
  ASSUME SoloInv, UNCHANGED <<pc, job>>,
         AlikeDisk, mgmtCooling' => mgmtCooling, NothingRedeemed,
         \A a \in Accounts : owed'[a] => owed[a]
  PROVE  AllKnow'
<1> SUFFICES ASSUME NEW e \in Engines
             PROVE  Knows(pc[e], job[e])'
  BY DEF AllKnow
<1>1. PICK p, j : p = pc[e] /\ j = job[e]
  OBVIOUS
<1>2. p \in Stages /\ j \in Jobs /\ StageFits(p, j) /\ Knows(p, j) /\ TypeOK
  BY <1>1 DEF SoloInv, IInv, TypeOK, EngineTypeOK, AllKnow
<1>3. Knows(p, j)'
  BY <1>2, KnowsKept
<1>4. p = pc'[e] /\ j = job'[e]
  BY <1>1
<1> QED
  BY <1>3, <1>4 DEF Knows, KnowsAttempt, KnowsRefusal, Refused, KnowsAccount,
     KnowsPresence, KnowsCooldown

LEMMA SoloEasy ==
  ASSUME OneEngine, SoloInv, TypeOK', NEW e \in Engines, NEW p, NEW j,
         Goto(e, p), SetJob(e, j), Knows(p, j), AlikeDisk,
         UNCHANGED <<mgmtCooling, wallet, outcome, owed>>,
         LateRequests = FALSE => wire' = {} \/ (pc[e] # "await" /\ UNCHANGED wire)
  PROVE  Rest'
<1>1. AllKnow'
  BY SoloMove DEF SoloInv, IInv
<1>2. LateRequests = FALSE => wire' = {}
  BY WireEmpty
<1>3. WireAwaited'
  BY <1>2 DEF WireAwaited
<1> QED
  BY <1>1, <1>3, FileSoundKept, BooksKept DEF Rest, SoloInv, NothingRedeemed

\* A step that leaves the loop as it is.
LEMMA SoloLoop ==
  ASSUME OneEngine, SoloInv, TypeOK', NEW e \in Engines, NEW p, NEW j,
         p \in {"idle", "reconcile"} \/
           (p = "next" /\ pc[e] \notin {"idle", "reconcile"}
              /\ j.todo \subseteq job[e].todo),
         Goto(e, p), SetJob(e, j), AlikeDisk,
         UNCHANGED <<mgmtCooling, wallet, outcome, owed>>,
         LateRequests = FALSE => wire' = {} \/ (pc[e] # "await" /\ UNCHANGED wire)
  PROVE  Rest'
<1>1. Knows(p, j)
  BY DEF SoloInv, AllKnow, Knows, KnowsAttempt, KnowsRefusal, Refused, KnowsAccount,
     KnowsPresence, KnowsCooldown, Carrying, Deciding, Clearing, CarryStages,
     Between
<1> QED
  BY <1>1, SoloEasy

LEMMA SoloLeave ==
  ASSUME OneEngine, SoloInv, TypeOK', NEW e \in Engines,
         pc[e] \notin {"idle", "reconcile"}, Leave(e), AlikeDisk,
         UNCHANGED <<mgmtCooling, wallet, outcome, owed>>,
         LateRequests = FALSE => wire' = {} \/ (pc[e] # "await" /\ UNCHANGED wire)
  PROVE  Rest'
<1> DEFINE j == Left(e)
<1>1. j.todo \subseteq job[e].todo
  BY DEF Left, NoJob
<1>2. Goto(e, "next") /\ SetJob(e, j)
  BY DEF Leave
<1> HIDE DEF j
<1> QED
  BY <1>1, <1>2, SoloLoop

LEMMA SoloDiscover ==
  ASSUME OneEngine, SoloInv, TypeOK', NEW e \in Engines,
         Discover(e) \/ FinishScan(e) \/ Crash(e)
  PROVE  Rest'
<1>1. /\ AlikeDisk
      /\ UNCHANGED <<mgmtCooling, wallet, outcome, owed>>
  BY AlikeStutter DEF Discover, FinishScan, Crash, serverVars, SoloInv, IInv
<1>2. \E p \in {"idle", "reconcile"} : \E j : Goto(e, p) /\ SetJob(e, j)
  BY DEF Discover, FinishScan, Crash
<1>3. LateRequests = FALSE => wire' = {} \/ (pc[e] # "await" /\ UNCHANGED wire)
  <2>1. CASE Crash(e)
    <3>1. \A m \in wire : m.eng = e
      BY DEF OneEngine, SoloInv, IInv, TypeOK, Requests
    <3> QED
      BY <2>1, <3>1 DEF Crash
  <2>2. CASE Discover(e) \/ FinishScan(e)
    BY <2>2 DEF Discover, FinishScan, serverVars
  <2> QED
    BY <2>1, <2>2
<1> QED
  BY <1>1, <1>2, <1>3, SoloLoop

LEMMA SoloLoad ==
  ASSUME OneEngine, SoloInv, TypeOK', NEW e \in Engines, LoadAccount(e)
  PROVE  Rest'
<1>1. /\ job[e] \in Jobs /\ pc[e] = "next"
      /\ AlikeDisk
      /\ UNCHANGED <<mgmtCooling, wallet, wire, outcome, owed>>
  BY AlikeStutter DEF SoloInv, IInv, TypeOK, EngineTypeOK, LoadAccount, serverVars
<1>2. PICK a \in job[e].todo :
        LET rest == [job[e] EXCEPT !.todo = @ \ {a}]
            s == disk[a]
            plan == Plan(s, a \in job[e].off)
        IN \/ /\ s.present # "unknown"
              /\ Goto(e, "usage")
              /\ SetJob(e, [rest EXCEPT
                   !.acct = a,
                   !.plan = plan,
                   !.tomb = s.tomb,
                   !.avoid = IF s.backoff = None THEN None ELSE s.backoff.fp,
                   !.cold = s.cooling,
                   !.attempt = IF plan = "resolve" THEN s.pending ELSE None])
           \/ SetJob(e, rest) /\ UNCHANGED pc
  BY DEF LoadAccount
<1> DEFINE rest == [job[e] EXCEPT !.todo = @ \ {a}]
           s == disk[a]
           plan == Plan(s, a \in job[e].off)
           full == [rest EXCEPT
                   !.acct = a,
                   !.plan = plan,
                   !.tomb = s.tomb,
                   !.avoid = IF s.backoff = None THEN None ELSE s.backoff.fp,
                   !.cold = s.cooling,
                   !.attempt = IF plan = "resolve" THEN s.pending ELSE None]
<1>3. a \in Accounts /\ s \in AccountStates
  BY <1>1 DEF Jobs, SoloInv, IInv, TypeOK
<1>4. /\ full.acct = a /\ full.plan = plan /\ full.tomb = s.tomb
      /\ full.attempt = IF plan = "resolve" THEN s.pending ELSE None
      /\ full.todo = job[e].todo \ {a} /\ rest.todo = job[e].todo \ {a}
  BY <1>1 DEF Jobs
<1>5. /\ plan = "resolve" => s.pending # None
      /\ plan = "fresh" => s.clear = "none"
      /\ plan \in {"clear", "wait"} => s.clear # "none"
      /\ plan # "skip" => ~mgmtCooling
  BY <1>3 DEF Plan, AccountStates
<1>6. \/ SetJob(e, full) /\ Goto(e, "usage")
      \/ SetJob(e, rest) /\ UNCHANGED pc
  BY <1>2
<1> HIDE DEF full, plan, rest
<1>7. CASE SetJob(e, full) /\ Goto(e, "usage")
  <2>1. Knows(pc[e], job[e])
    BY DEF SoloInv, AllKnow
  <2>2. \A x \in job[e].todo : disk[x].present = "present"
    BY <1>1, <2>1 DEF Knows, KnowsPresence
  <2>3. s.clear # "none" => s.pending = None
    BY <1>3 DEF SoloInv, FileSound, ClearExcludesPending
  <2>4. Knows("usage", full)
    BY <1>4, <1>5, <2>2, <2>3 DEF Knows, KnowsAttempt, KnowsRefusal, Refused, KnowsAccount,
       KnowsPresence, KnowsCooldown, Carrying, Deciding, Clearing, CarryStages,
       Between
  <2> QED
    BY <1>1, <1>7, <2>4, SoloEasy
<1>8. CASE SetJob(e, rest) /\ UNCHANGED pc
  <2>1. Goto(e, "next")
    BY <1>1, <1>8 DEF Goto, SoloInv, IInv, TypeOK, EngineTypeOK
  <2>2. rest.todo \subseteq job[e].todo
    BY <1>4
  <2> QED
    BY <1>1, <1>8, <2>1, <2>2, SoloLoop
<1> QED
  BY <1>6, <1>7, <1>8

\* The locals of an attempt that goes on, and of a job with another code.
LEMMA AttemptingFields ==
  ASSUME NEW e \in Engines, NEW attempt
  PROVE  LET j == Attempting(e, attempt) IN
         /\ j.acct = job[e].acct /\ j.attempt = attempt /\ j.todo = job[e].todo
         /\ j.plan = "skip" /\ j.code = "none"
BY DEF Attempting, Left, NoJob

LEMMA CodeFields ==
  ASSUME NEW j \in Jobs, NEW code
  PROVE  LET n == [j EXCEPT !.code = code] IN
         /\ n.acct = j.acct /\ n.attempt = j.attempt /\ n.todo = j.todo
         /\ n.plan = j.plan /\ n.tomb = j.tomb /\ n.credit = j.credit
         /\ n.code = code
BY DEF Jobs

LEMMA SoloUsage ==
  ASSUME OneEngine, SoloInv, TypeOK', NEW e \in Engines, UsageReply(e)
  PROVE  Rest'
<1>1. /\ pc[e] = "usage" /\ AlikeDisk /\ job[e] \in Jobs
      /\ job[e].plan \in {"skip", "clear", "wait", "resolve", "fresh"}
      /\ UNCHANGED <<mgmtCooling, wallet, wire, outcome, owed>>
  BY AlikeStutter DEF UsageReply, SoloInv, IInv, TypeOK, EngineTypeOK, Jobs,
     serverVars
<1>2. Knows("usage", job[e])
  BY <1>1 DEF SoloInv, AllKnow
<1>3. \/ Leave(e)
      \/ /\ job[e].plan \in {"clear", "wait"}
         /\ Goto(e, "clear") /\ SetJob(e, Attempting(e, None))
      \/ /\ job[e].plan = "resolve" /\ Goto(e, "vcredits")
         /\ SetJob(e, Attempting(e, job[e].attempt))
      \/ /\ job[e].plan = "fresh" /\ Goto(e, "credits")
         /\ \E level : SetJob(e, [job[e] EXCEPT !.usage = level,
                                    !.window = window[job[e].acct]])
  <2>1. CASE job[e].plan = "skip"
    BY <2>1 DEF UsageReply
  <2>2. CASE job[e].plan = "clear" \/ job[e].plan = "wait"
    BY <2>2 DEF UsageReply
  <2>3. CASE job[e].plan = "resolve"
    BY <2>3 DEF UsageReply
  <2>4. CASE job[e].plan = "fresh"
    BY <2>4 DEF UsageReply
  <2> QED
    BY <1>1, <2>1, <2>2, <2>3, <2>4
<1>4. CASE Leave(e)
  BY <1>1, <1>4, SoloLeave
<1>5. ASSUME job[e].plan \in {"clear", "wait"}, Goto(e, "clear"),
             SetJob(e, Attempting(e, None))
      PROVE  Rest'
  <2> DEFINE j == Attempting(e, None)
  <2>1. /\ j.acct = job[e].acct /\ j.todo = job[e].todo
    BY AttemptingFields
  <2>2. SetJob(e, j)
    BY <1>5
  <2> HIDE DEF j
  <2>3. Knows("clear", j)
    BY <1>2, <1>5, <2>1 DEF Knows, KnowsAttempt, KnowsRefusal, Refused, KnowsAccount,
       KnowsPresence, KnowsCooldown, Carrying, Deciding, Clearing, CarryStages,
       Between
  <2> QED
    BY <1>1, <1>5, <2>2, <2>3, SoloEasy
<1>6. ASSUME job[e].plan = "resolve", Goto(e, "vcredits"),
             SetJob(e, Attempting(e, job[e].attempt))
      PROVE  Rest'
  <2> DEFINE j == Attempting(e, job[e].attempt)
  <2>1. /\ j.acct = job[e].acct /\ j.todo = job[e].todo
        /\ j.attempt = job[e].attempt
    BY AttemptingFields
  <2>2. SetJob(e, j)
    BY <1>6
  <2> HIDE DEF j
  <2>3. Knows("vcredits", j)
    BY <1>2, <1>6, <2>1 DEF Knows, KnowsAttempt, KnowsRefusal, Refused, KnowsAccount,
       KnowsPresence, KnowsCooldown, Carrying, Deciding, Clearing, CarryStages,
       Between
  <2> QED
    BY <1>1, <1>6, <2>2, <2>3, SoloEasy
<1>7. ASSUME job[e].plan = "fresh", Goto(e, "credits"), NEW level,
             SetJob(e, [job[e] EXCEPT !.usage = level,
                          !.window = window[job[e].acct]])
      PROVE  Rest'
  <2> DEFINE j == [job[e] EXCEPT !.usage = level,
                     !.window = window[job[e].acct]]
  <2>1. /\ j.acct = job[e].acct /\ j.todo = job[e].todo /\ j.tomb = job[e].tomb
    BY <1>1 DEF Jobs
  <2>2. SetJob(e, j)
    BY <1>7
  <2> HIDE DEF j
  <2>3. Knows("credits", j)
    BY <1>2, <1>7, <2>1 DEF Knows, KnowsAttempt, KnowsRefusal, Refused, KnowsAccount,
       KnowsPresence, KnowsCooldown, Carrying, Deciding, Clearing, CarryStages,
       Between
  <2> QED
    BY <1>1, <1>7, <2>2, <2>3, SoloEasy
<1> QED
  BY <1>3, <1>4, <1>5, <1>6, <1>7

LEMMA SoloCredits ==
  ASSUME OneEngine, SoloInv, TypeOK', NEW e \in Engines, CreditsReply(e)
  PROVE  Rest'
<1> DEFINE c == FirstUsable(Available(job[e].acct), job[e].tomb)
<1>1. /\ pc[e] = "credits" /\ job[e] \in Jobs
      /\ UNCHANGED <<mgmtCooling, wallet, wire, outcome, owed>>
  BY DEF CreditsReply, SoloInv, IInv, TypeOK, EngineTypeOK, serverVars
<1>2. Knows("credits", job[e])
  BY <1>1 DEF SoloInv, AllKnow
<1>3. \/ TransientFailure(e)
      \/ Leave(e) /\ UNCHANGED disk
      \/ /\ c # None /\ Goto(e, "recheck")
         /\ SetJob(e, [job[e] EXCEPT !.credit = c]) /\ UNCHANGED disk
  <2>1. \A level, age : Decision(c, level, age) = "recheck" => c # None
    BY DEF Decision
  <2> HIDE DEF c
  <2> QED
    BY <2>1 DEF CreditsReply, c
<1>4. CASE TransientFailure(e)
  <2>1. AlikeDisk /\ Leave(e)
    BY <1>1, <1>4, AlikeTransient DEF TransientFailure, SoloInv, IInv
  <2> QED
    BY <1>1, <2>1, SoloLeave
<1>5. CASE Leave(e) /\ UNCHANGED disk
  BY <1>1, <1>5, AlikeStutter, SoloLeave DEF SoloInv, IInv
<1>6. CASE /\ c # None /\ Goto(e, "recheck")
           /\ SetJob(e, [job[e] EXCEPT !.credit = c]) /\ UNCHANGED disk
  <2> DEFINE j == [job[e] EXCEPT !.credit = c]
  <2>1. c \notin job[e].tomb
    <3>1. Available(job[e].acct) \in SUBSET Credits
      BY DEF Available
    <3> QED
      BY <1>6, <3>1, FirstUsableType
  <2>2. /\ j.acct = job[e].acct /\ j.todo = job[e].todo /\ j.tomb = job[e].tomb
        /\ j.credit = c
    BY <1>1 DEF Jobs
  <2>3. SetJob(e, j) /\ Goto(e, "recheck")
    BY <1>6
  <2>4. AlikeDisk
    BY <1>6, AlikeStutter DEF SoloInv, IInv
  <2> HIDE DEF j, c
  <2>5. Knows("recheck", j)
    BY <1>2, <2>1, <2>2 DEF Knows, KnowsAttempt, KnowsRefusal, Refused, KnowsAccount,
       KnowsPresence, KnowsCooldown, Carrying, Deciding, Clearing, CarryStages,
       Between
  <2> QED
    BY <1>1, <2>3, <2>4, <2>5, SoloEasy
<1> QED
  BY <1>3, <1>4, <1>5, <1>6

LEMMA SoloRecheck ==
  ASSUME OneEngine, SoloInv, TypeOK', NEW e \in Engines, RecheckReply(e)
  PROVE  Rest'
<1>1. /\ pc[e] = "recheck" /\ job[e] \in Jobs
      /\ UNCHANGED <<mgmtCooling, wallet, wire, outcome, owed>>
  BY DEF RecheckReply, SoloInv, IInv, TypeOK, EngineTypeOK, serverVars
<1>2. Knows("recheck", job[e])
  BY <1>1 DEF SoloInv, AllKnow
<1>3. \/ TransientFailure(e)
      \/ Leave(e) /\ UNCHANGED disk
      \/ /\ Goto(e, "persist") /\ UNCHANGED disk
         /\ \E fp : SetJob(e, [job[e] EXCEPT !.fp = fp])
  BY DEF RecheckReply
<1>4. CASE TransientFailure(e)
  <2>1. AlikeDisk /\ Leave(e)
    BY <1>1, <1>4, AlikeTransient DEF TransientFailure, SoloInv, IInv
  <2> QED
    BY <1>1, <2>1, SoloLeave
<1>5. CASE Leave(e) /\ UNCHANGED disk
  BY <1>1, <1>5, AlikeStutter, SoloLeave DEF SoloInv, IInv
<1>6. ASSUME Goto(e, "persist"), UNCHANGED disk, NEW fp,
             SetJob(e, [job[e] EXCEPT !.fp = fp])
      PROVE  Rest'
  <2> DEFINE j == [job[e] EXCEPT !.fp = fp]
  <2>1. /\ j.acct = job[e].acct /\ j.todo = job[e].todo /\ j.tomb = job[e].tomb
        /\ j.credit = job[e].credit
    BY <1>1 DEF Jobs
  <2>2. SetJob(e, j)
    BY <1>6
  <2>3. AlikeDisk
    BY <1>6, AlikeStutter DEF SoloInv, IInv
  <2> HIDE DEF j
  <2>4. Knows("persist", j)
    BY <1>2, <2>1 DEF Knows, KnowsAttempt, KnowsRefusal, Refused, KnowsAccount,
       KnowsPresence, KnowsCooldown, Carrying, Deciding, Clearing, CarryStages,
       Between
  <2> QED
    BY <1>1, <1>6, <2>2, <2>3, <2>4, SoloEasy
<1> QED
  BY <1>3, <1>4, <1>5, <1>6

LEMMA SoloGivesWay ==
  ASSUME OneEngine, SoloInv, TypeOK', NEW e \in Engines,
         PersistRefused(e) \/ CompleteFails(e)
  PROVE  Rest'
<1>1. /\ pc[e] \in {"persist", "complete"} /\ Leave(e)
      /\ AlikeDisk
      /\ UNCHANGED <<mgmtCooling, wallet, wire, outcome, owed>>
  BY AlikeStutter DEF PersistRefused, CompleteFails, SoloInv, IInv, serverVars
<1> QED
  BY <1>1, SoloLeave

\* The consume request is not sent, or given up on.
LEMMA SoloNoAnswer ==
  ASSUME OneEngine, SoloInv, TypeOK', NEW e \in Engines, SendFails(e) \/ GiveUp(e)
  PROVE  Rest'
<1> DEFINE j == [job[e] EXCEPT !.code = "error"]
<1>1. /\ pc[e] \in {"consume", "await"} /\ job[e] \in Jobs
      /\ Goto(e, "settle") /\ SetJob(e, j) /\ AlikeDisk
      /\ UNCHANGED <<mgmtCooling, wallet, outcome, owed>>
  BY AlikeStutter DEF SendFails, GiveUp, SoloInv, IInv, TypeOK, EngineTypeOK,
     serverVars
<1>2. LateRequests = FALSE => wire' = {} \/ (pc[e] # "await" /\ UNCHANGED wire)
  <2>1. CASE GiveUp(e)
    <3>1. \A m \in wire : m.eng = e
      BY DEF OneEngine, SoloInv, IInv, TypeOK, Requests
    <3> QED
      BY <2>1, <3>1 DEF GiveUp
  <2>2. CASE SendFails(e)
    BY <2>2 DEF SendFails, serverVars
  <2> QED
    BY <2>1, <2>2
<1>3. /\ j.acct = job[e].acct /\ j.attempt = job[e].attempt
      /\ j.todo = job[e].todo /\ j.code = "error"
  BY <1>1, CodeFields
<1>4. Knows(pc[e], job[e])
  BY DEF SoloInv, AllKnow
<1> HIDE DEF j
<1>5. Knows("settle", j)
  BY <1>1, <1>3, <1>4 DEF Knows, KnowsAttempt, KnowsRefusal, Refused, KnowsAccount,
     KnowsPresence, KnowsCooldown, Carrying, Deciding, Clearing, CarryStages,
     Between
<1> QED
  BY <1>1, <1>2, <1>5, SoloEasy

LEMMA SoloSend ==
  ASSUME OneEngine, SoloInv, TypeOK', NEW e \in Engines, SendConsume(e)
  PROVE  Rest'
<1> DEFINE r == [eng |-> e, acct |-> job[e].acct,
                 credit |-> job[e].attempt.credit,
                 key |-> job[e].attempt.key, try |-> job[e].attempt.count]
<1>1. /\ pc[e] = "consume" /\ Goto(e, "await") /\ UNCHANGED job
      /\ wire' = wire \cup {r} /\ AlikeDisk /\ TypeOK
      /\ UNCHANGED <<mgmtCooling, wallet, outcome, owed>>
  BY AlikeStutter DEF SendConsume, SoloInv, IInv
<1>2. SetJob(e, job[e])
  BY <1>1 DEF SetJob, TypeOK, EngineTypeOK
<1>3. Knows("consume", job[e])
  BY <1>1 DEF SoloInv, AllKnow
<1>4. Knows("await", job[e])
  BY <1>3 DEF Knows, KnowsAttempt, KnowsRefusal, Refused, KnowsAccount, KnowsPresence,
     KnowsCooldown, Carrying, Deciding, Clearing, CarryStages, Between
<1>5. AllKnow'
  BY <1>1, <1>2, <1>4, SoloMove
<1>6. WireAwaited'
  <2>1. LateRequests = FALSE => wire' = {r}
    BY <1>1, WireEmpty
  <2>2. pc'[e] = "await" /\ job'[e] = job[e]
    BY <1>1 DEF Goto, TypeOK, EngineTypeOK
  <2> QED
    BY <2>1, <2>2 DEF WireAwaited
<1> QED
  BY <1>1, <1>5, <1>6, FileSoundKept, BooksKept DEF Rest, SoloInv, NothingRedeemed

LEMMA SoloAmbiguous ==
  ASSUME OneEngine, SoloInv, TypeOK', NEW e \in Engines, MarkAmbiguous(e)
  PROVE  Rest'
<1>1. /\ pc[e] = "settle" /\ Bump(e) /\ Leave(e)
      /\ UNCHANGED <<mgmtCooling, wallet, wire, outcome, owed>>
  BY DEF MarkAmbiguous, Bump, serverVars
<1> QED
  BY <1>1, AlikeBump, SoloLeave DEF SoloInv, IInv

\* The same for the two queries that verify an attempt.
LEMMA SoloVerifyCredits ==
  ASSUME OneEngine, SoloInv, TypeOK', NEW e \in Engines, VerifyCredits(e)
  PROVE  Rest'
<1>1. /\ pc[e] = "vcredits" /\ job[e] \in Jobs
      /\ UNCHANGED <<mgmtCooling, wallet, wire, outcome, owed>>
  BY DEF VerifyCredits, SoloInv, IInv, TypeOK, EngineTypeOK, serverVars
<1>2. CASE Bump(e)
  BY <1>1, <1>2, AlikeBump, SoloLeave DEF SoloInv, IInv, Bump
<1>3. CASE ~Bump(e)
  <2> DEFINE code == IF job[e].attempt.credit \in Available(job[e].acct)
                     THEN "listed" ELSE "gone"
             j == [job[e] EXCEPT !.code = code]
  <2>1. Goto(e, "vusage") /\ SetJob(e, j) /\ AlikeDisk
    BY <1>3, AlikeStutter DEF VerifyCredits, SoloInv, IInv
  <2>2. /\ j.acct = job[e].acct /\ j.attempt = job[e].attempt
        /\ j.todo = job[e].todo /\ j.code = code
    BY <1>1, CodeFields
  <2>3. Knows("vcredits", job[e])
    BY <1>1 DEF SoloInv, AllKnow
  <2>4. code = "listed" =>
          wallet[job[e].acct][job[e].attempt.credit] # job[e].attempt.key
    <3>1. job[e].attempt.key \in Keys
      BY <1>1, AtAttempt DEF SoloInv, IInv, Attempts
    <3> QED
      BY <3>1, KeysAssumption DEF Available
  <2> HIDE DEF j, code
  <2>5. Knows("vusage", j)
    BY <2>2, <2>3, <2>4 DEF Knows, KnowsAttempt, KnowsRefusal, Refused, KnowsAccount,
       KnowsPresence, KnowsCooldown, Carrying, Deciding, Clearing, CarryStages,
       Between
  <2> QED
    BY <1>1, <2>1, <2>5, SoloEasy
<1> QED
  BY <1>2, <1>3

LEMMA SoloVerifyUsage ==
  ASSUME OneEngine, SoloInv, TypeOK', NEW e \in Engines, VerifyUsage(e)
  PROVE  Rest'
<1>1. /\ pc[e] = "vusage" /\ job[e] \in Jobs
      /\ UNCHANGED <<mgmtCooling, wallet, wire, outcome, owed>>
  BY DEF VerifyUsage, SoloInv, IInv, TypeOK, EngineTypeOK, serverVars
<1>2. Knows("vusage", job[e])
  BY <1>1 DEF SoloInv, AllKnow
<1>3. \/ Bump(e)
      \/ /\ UNCHANGED disk
         /\ \/ Goto(e, "complete") /\ UNCHANGED job
            \/ /\ job[e].code = "listed" /\ Goto(e, "settle")
               /\ SetJob(e, [job[e] EXCEPT !.code = "exhausted"])
            \/ \E level : Goto(e, "consume") /\ SetJob(e, RetryJob(job[e], level))
            \/ Leave(e)
  BY DEF VerifyUsage
<1>4. CASE Bump(e)
  BY <1>1, <1>4, AlikeBump, SoloLeave DEF SoloInv, IInv, Bump
<1>5. ASSUME UNCHANGED disk
      PROVE  AlikeDisk
  BY <1>5, AlikeStutter DEF SoloInv, IInv
<1>6. CASE UNCHANGED disk /\ Goto(e, "complete") /\ UNCHANGED job
  <2>1. SetJob(e, job[e])
    BY <1>6 DEF SetJob, SoloInv, IInv, TypeOK, EngineTypeOK
  <2>2. Knows("complete", job[e])
    BY <1>2 DEF Knows, KnowsAttempt, KnowsRefusal, Refused, KnowsAccount, KnowsPresence,
       KnowsCooldown, Carrying, Deciding, Clearing, CarryStages, Between
  <2> QED
    BY <1>1, <1>5, <1>6, <2>1, <2>2, SoloEasy
<1>7. CASE /\ UNCHANGED disk /\ job[e].code = "listed" /\ Goto(e, "settle")
           /\ SetJob(e, [job[e] EXCEPT !.code = "exhausted"])
  <2> DEFINE j == [job[e] EXCEPT !.code = "exhausted"]
  <2>1. /\ j.acct = job[e].acct /\ j.attempt = job[e].attempt
        /\ j.todo = job[e].todo
    BY <1>1, CodeFields
  <2>2. SetJob(e, j)
    BY <1>7
  <2> HIDE DEF j
  <2>3. Knows("settle", j)
    BY <1>2, <1>7, <2>1 DEF Knows, KnowsAttempt, KnowsRefusal, Refused, KnowsAccount,
       KnowsPresence, KnowsCooldown, Carrying, Deciding, Clearing, CarryStages,
       Between
  <2> QED
    BY <1>1, <1>5, <1>7, <2>2, <2>3, SoloEasy
<1>8. ASSUME UNCHANGED disk, NEW level, Goto(e, "consume"),
             SetJob(e, RetryJob(job[e], level))
      PROVE  Rest'
  <2> DEFINE j == RetryJob(job[e], level)
  <2>1. /\ j.acct = job[e].acct /\ j.attempt = job[e].attempt
        /\ j.todo = job[e].todo
    BY <1>1 DEF RetryJob, Jobs
  <2>2. SetJob(e, j)
    BY <1>8
  <2> HIDE DEF j
  <2>3. Knows("consume", j)
    BY <1>2, <2>1 DEF Knows, KnowsAttempt, KnowsRefusal, Refused, KnowsAccount,
       KnowsPresence, KnowsCooldown, Carrying, Deciding, Clearing, CarryStages,
       Between
  <2> QED
    BY <1>1, <1>5, <1>8, <2>2, <2>3, SoloEasy
<1>9. CASE UNCHANGED disk /\ Leave(e)
  BY <1>1, <1>5, <1>9, SoloLeave
<1> QED
  BY <1>3, <1>4, <1>6, <1>7, <1>8, <1>9

-----------------------------------------------------------------------------
(* Steps that write more of the file, or change the service's books.       *)

\* An engine that is back in the loop knows that its accounts were found.
LEMMA KnowsNext ==
  ASSUME NEW p \in Between, NEW j,
         p = "next" => \A a \in j.todo : disk'[a].present = "present"
  PROVE  Knows(p, j)'
BY DEF Knows, KnowsAttempt, KnowsRefusal, Refused, KnowsAccount, KnowsPresence,
   KnowsCooldown, Carrying, Deciding, Clearing, CarryStages, Between

\* The one engine is at stage p, with the locals j.
LEMMA SoloAt ==
  ASSUME OneEngine, NEW e \in Engines, NEW p, NEW j, pc'[e] = p, job'[e] = j,
         Knows(p, j)'
  PROVE  AllKnow'
<1>1. Knows(pc[e], job[e])'
  BY DEF Knows, KnowsAttempt, KnowsRefusal, Refused, KnowsAccount, KnowsPresence,
     KnowsCooldown
<1> QED
  BY <1>1 DEF AllKnow, OneEngine

LEMMA WireStaysEmpty ==
  ASSUME OneEngine, SoloInv, NEW e \in Engines, pc[e] # "await", UNCHANGED wire
  PROVE  WireAwaited'
<1>1. LateRequests = FALSE => wire' = {}
  BY WireEmpty
<1> QED
  BY <1>1 DEF WireAwaited

LEMMA SoloReconcile ==
  ASSUME OneEngine, SoloInv, NEW e \in Engines, Reconcile(e)
  PROVE  Rest'
<1> DEFINE R == Reconciled(job[e].todo)
<1>1. /\ pc[e] = "reconcile" /\ job[e] \in Jobs
      /\ \A a \in Accounts : disk[a] \in AccountStates
      /\ UNCHANGED <<mgmtCooling, wallet, wire, outcome, owed>>
  BY DEF Reconcile, SoloInv, IInv, TypeOK, EngineTypeOK, serverVars
<1>2. \A a \in Accounts :
        /\ R[a].pending = disk[a].pending /\ R[a].tomb = disk[a].tomb
        /\ R[a].clear = disk[a].clear
        /\ a \in job[e].todo => R[a].present = "present"
  BY <1>1 DEF Reconciled, AccountStates
<1>3. \/ disk' = R /\ Goto(e, "next") /\ UNCHANGED job
      \/ disk' \in {disk, R} /\ Goto(e, "idle") /\ SetJob(e, NoJob)
  BY DEF Reconcile
<1> HIDE DEF R
<1>4. AllKnow'
  <2>1. CASE disk' = R /\ Goto(e, "next") /\ UNCHANGED job
    <3>1. job[e].todo \subseteq Accounts
      BY <1>1 DEF Jobs
    <3>2. \A a \in job[e].todo : disk'[a].present = "present"
      BY <1>2, <2>1, <3>1
    <3>3. pc'[e] = "next" /\ job'[e] = job[e]
      BY <2>1 DEF Goto, SoloInv, IInv, TypeOK, EngineTypeOK
    <3>4. PICK j : j = job[e]
      OBVIOUS
    <3>5. Knows("next", j)'
      BY <3>2, <3>4, KnowsNext DEF Between
    <3> QED
      BY <3>3, <3>4, <3>5, SoloAt
  <2>2. CASE Goto(e, "idle") /\ SetJob(e, NoJob)
    <3>1. pc'[e] = "idle" /\ job'[e] = NoJob
      BY <2>2 DEF Goto, SetJob, SoloInv, IInv, TypeOK, EngineTypeOK
    <3>2. Knows("idle", NoJob)'
      BY KnowsNext DEF Between
    <3> QED
      BY <3>1, <3>2, SoloAt
  <2> QED
    BY <1>3, <2>1, <2>2
<1>5. FileSound'
  <2>1. disk' = disk \/ disk' = R
    BY <1>3
  <2> QED
    BY <1>1, <1>2, <2>1 DEF SoloInv, FileSound, OpenUntombed,
       ClearExcludesPending, LocalClearOwed
<1> QED
  BY <1>1, <1>4, <1>5, WireStaysEmpty, BooksKept
  DEF Rest, SoloInv, NothingRedeemed

LEMMA SoloPersist ==
  ASSUME OneEngine, SoloInv, NEW e \in Engines, PersistAttempt(e)
  PROVE  Rest'
<1> DEFINE a == job[e].acct
<1>1. /\ pc[e] = "persist" /\ job[e] \in Jobs /\ TypeOK
      /\ a \in Accounts /\ disk[a] \in AccountStates
      /\ UNCHANGED <<mgmtCooling, wallet, wire, owed>>
  BY AtAccount DEF PersistAttempt, SoloInv, IInv, TypeOK, EngineTypeOK, serverVars
<1>2. Knows("persist", job[e])
  BY <1>1 DEF SoloInv, AllKnow
<1>3. PICK k \in Keys :
        LET attempt == [key |-> k, credit |-> job[e].credit, fp |-> job[e].fp,
                        count |-> 0]
        IN /\ outcome[k] = "unused"
           /\ disk' = [disk EXCEPT ![a].pending = attempt]
           /\ outcome' = [outcome EXCEPT ![k] = "open"]
           /\ \/ Goto(e, "consume") /\ SetJob(e, Attempting(e, attempt))
              \/ Leave(e)
  BY DEF PersistAttempt
<1> DEFINE attempt == [key |-> k, credit |-> job[e].credit, fp |-> job[e].fp,
                       count |-> 0]
<1>4. attempt # None /\ attempt.key = k /\ attempt.credit = job[e].credit
  <2>1. job[e].credit \in Credits /\ job[e].fp \in Fingerprints
    BY <1>1 DEF TypeOK, EngineTypeOK, StageFits
  <2>2. attempt \in Attempts
    BY <2>1, BoundsAssumption DEF Attempts
  <2> QED
    BY <2>2, NoneAssumption
<1>5. \/ Goto(e, "consume") /\ SetJob(e, Attempting(e, attempt))
      \/ Leave(e)
  BY <1>3
<1>6. disk' = [disk EXCEPT ![a].pending = attempt]
      /\ outcome' = [outcome EXCEPT ![k] = "open"]
  BY <1>3
<1> HIDE DEF attempt
<1>7. /\ disk'[a].pending = attempt
      /\ \A x \in Accounts : x # a => disk'[x] = disk[x]
      /\ \A x \in Accounts :
           /\ disk'[x].tomb = disk[x].tomb /\ disk'[x].clear = disk[x].clear
           /\ disk'[x].present = disk[x].present
  BY <1>1, <1>6 DEF TypeOK, AccountStates
<1>8. job[e].todo \subseteq Accounts
  BY <1>1 DEF Jobs
<1>9. AllKnow'
  <2>1. CASE Leave(e)
    <3> DEFINE j == Left(e)
    <3>1. pc'[e] = "next" /\ job'[e] = j
      BY <1>1, <2>1 DEF Leave, Goto, SetJob, TypeOK, EngineTypeOK
    <3>2. j.todo = job[e].todo
      BY DEF Left, NoJob
    <3> HIDE DEF j
    <3>3. PICK i : i = j
      OBVIOUS
    <3>4. \A x \in i.todo : disk'[x].present = "present"
      BY <1>2, <1>7, <1>8, <3>2, <3>3 DEF Knows, KnowsPresence
    <3>5. Knows("next", i)'
      BY <3>4, KnowsNext DEF Between
    <3> QED
      BY <3>1, <3>3, <3>5, SoloAt
  <2>2. CASE Goto(e, "consume") /\ SetJob(e, Attempting(e, attempt))
    <3>1. PICK j : j = Attempting(e, attempt)
      OBVIOUS
    <3>2. /\ j.acct = a /\ j.todo = job[e].todo /\ j.attempt = attempt
          /\ j.plan = "skip"
      BY <3>1, AttemptingFields
    <3>3. pc'[e] = "consume" /\ job'[e] = j
      BY <1>1, <2>2, <3>1 DEF Goto, SetJob, TypeOK, EngineTypeOK
    <3>4. /\ ~mgmtCooling /\ disk'[a].present = "present"
          /\ \A x \in j.todo : disk'[x].present = "present"
      BY <1>1, <1>2, <1>7, <1>8, <3>2
      DEF Knows, KnowsPresence, KnowsCooldown, Between
    <3>5. Knows("consume", j)'
      BY <1>1, <1>4, <1>7, <3>2, <3>4 DEF Knows, KnowsAttempt, KnowsRefusal, Refused,
         KnowsAccount, KnowsPresence, KnowsCooldown, Carrying, Deciding, Clearing
    <3> QED
      BY <3>3, <3>5, SoloAt
  <2> QED
    BY <1>5, <2>1, <2>2
<1>10. FileSound'
  <2>1. disk[a].clear = "none" /\ job[e].credit \notin disk[a].tomb
    BY <1>2 DEF Knows, KnowsAccount, Deciding
  <2> QED
    BY <1>1, <1>4, <1>7, <2>1 DEF SoloInv, FileSound, OpenUntombed,
       ClearExcludesPending, LocalClearOwed
<1>11. BooksSound'
  BY <1>1, <1>6 DEF SoloInv, BooksSound, NoForgottenRedemption, TypeOK
<1> QED
  BY <1>1, <1>9, <1>10, <1>11, WireStaysEmpty DEF Rest

LEMMA SoloApplyFailure ==
  ASSUME OneEngine, SoloInv, TypeOK', NEW e \in Engines, ApplyFailure(e)
  PROVE  Rest'
<1> DEFINE a == job[e].acct
           s == Failed(disk[a], job[e].attempt, job[e].code = "no_credit")
<1>1. /\ pc[e] = "settle" /\ job[e].code # "error" /\ Leave(e) /\ TypeOK
      /\ job[e] \in Jobs /\ a \in Accounts /\ disk[a] \in AccountStates
      /\ job[e].attempt \in Attempts
      /\ UNCHANGED <<mgmtCooling, wallet, wire, owed>>
  BY AtAttempt DEF ApplyFailure, SoloInv, IInv, serverVars
<1>2. Knows("settle", job[e])
  BY <1>1 DEF SoloInv, AllKnow
<1>3. CASE UNCHANGED <<disk, outcome>>
  BY <1>1, <1>3, AlikeStutter, SoloLeave
<1>4. CASE /\ disk' = [disk EXCEPT ![a] = s]
           /\ outcome' = IF disk[a].pending = None THEN outcome
                         ELSE [outcome EXCEPT ![disk[a].pending.key] = "failed"]
  <2>1. /\ s.pending = None /\ s.clear = disk[a].clear
        /\ s.present = disk[a].present
    BY <1>1 DEF Failed, AccountStates
  <2> HIDE DEF s
  <2>2. AllKnow'
    <3>1. PICK j : j = Left(e)
      OBVIOUS
    <3>2. pc'[e] = "next" /\ job'[e] = j
      BY <1>1, <3>1 DEF Leave, Goto, SetJob, TypeOK, EngineTypeOK
    <3>3. j.todo = job[e].todo /\ job[e].todo \subseteq Accounts
      BY <1>1, <3>1 DEF Left, NoJob, Jobs
    <3>4. \A x \in j.todo : disk'[x].present = "present"
      BY <1>1, <1>2, <1>4, <2>1, <3>3 DEF Knows, KnowsPresence, TypeOK
    <3>5. Knows("next", j)'
      BY <3>4, KnowsNext DEF Between
    <3> QED
      BY <3>2, <3>5, SoloAt
  <2>3. FileSound'
    BY <1>1, <1>4, <2>1 DEF SoloInv, FileSound, OpenUntombed,
       ClearExcludesPending, LocalClearOwed, TypeOK
  <2>4. BooksSound'
    <3> SUFFICES ASSUME LateRequests = FALSE PROVE NoForgottenRedemption'
      BY DEF BooksSound
    <3> DEFINE k == job[e].attempt.key
    <3>1. k \in Keys /\ job[e].attempt.credit \in Credits
      BY <1>1 DEF Attempts
    <3>2. outcome' = [outcome EXCEPT ![k] = "failed"]
      BY <1>2, <1>4 DEF Knows, KnowsAttempt, Carrying, CarryStages
    <3>3. wallet[a][job[e].attempt.credit] # k
      BY <1>1, <1>2 DEF Knows, KnowsRefusal, Refused, Refused
    <3>4. Uses(k, a, job[e].attempt.credit)
      BY <1>1 DEF Uses, ScanUses, Carries
    <3>5. \A x \in Accounts, c \in Credits : wallet[x][c] # k
      BY <1>1, <3>1, <3>3, <3>4 DEF SoloInv, IInv, KeysTraced, Uses
    <3> HIDE DEF k
    <3> QED
      BY <1>1, <3>1, <3>2, <3>5
      DEF SoloInv, BooksSound, NoForgottenRedemption, TypeOK
  <2> QED
    BY <1>1, <2>2, <2>3, <2>4, WireStaysEmpty DEF Rest
<1> QED
  BY <1>3, <1>4 DEF ApplyFailure

LEMMA SoloComplete ==
  ASSUME OneEngine, SoloInv, NEW e \in Engines, Complete(e)
  PROVE  Rest'
<1> DEFINE a == job[e].acct
           s == Succeeded(disk[a], job[e].attempt)
           k == job[e].attempt.key
<1>1. /\ pc[e] = "complete" /\ TypeOK
      /\ job[e] \in Jobs /\ a \in Accounts /\ disk[a] \in AccountStates
      /\ k \in Keys
      /\ UNCHANGED <<mgmtCooling, wallet, wire>>
      /\ disk' = [disk EXCEPT ![a] = s]
      /\ outcome' = [outcome EXCEPT ![k] = "success"]
      /\ owed' = [owed EXCEPT ![a] = TRUE]
  BY AtAttempt DEF Complete, SoloInv, IInv, serverVars, Attempts
<1>2. /\ s.pending = None /\ s.clear = "due" /\ s.present = disk[a].present
      /\ s.tomb = disk[a].tomb
  BY <1>1 DEF Succeeded, AccountStates
<1>3. \/ pc'[e] = "clear" /\ job'[e] = job[e]
      \/ pc'[e] = "next" /\ job'[e] = Left(e)
  BY <1>1 DEF Complete, Goto, TypeOK, EngineTypeOK
<1>4. Knows("complete", job[e])
  BY <1>1 DEF SoloInv, AllKnow
<1>5. job[e].todo \subseteq Accounts /\ Left(e).todo = job[e].todo
  BY <1>1 DEF Jobs, Left, NoJob
<1> HIDE DEF s, k
<1>6. \A x \in Accounts : disk'[x].present = disk[x].present
  BY <1>1, <1>2 DEF TypeOK
<1>7. AllKnow'
  <2>1. CASE pc'[e] = "next" /\ job'[e] = Left(e)
    <3>1. PICK j : j = Left(e)
      OBVIOUS
    <3>2. \A x \in j.todo : disk'[x].present = "present"
      BY <1>4, <1>5, <1>6, <3>1 DEF Knows, KnowsPresence
    <3>3. Knows("next", j)'
      BY <3>2, KnowsNext DEF Between
    <3> QED
      BY <2>1, <3>1, <3>3, SoloAt
  <2>2. CASE pc'[e] = "clear" /\ job'[e] = job[e]
    <3>1. PICK j : j = job[e]
      OBVIOUS
    <3>2. j.acct = a /\ disk'[a].pending = None
      BY <1>1, <1>2, <3>1 DEF TypeOK
    <3>3. /\ ~mgmtCooling' /\ disk'[a].present = "present"
          /\ \A x \in j.todo : disk'[x].present = "present"
      BY <1>1, <1>4, <1>5, <1>6, <3>1
      DEF Knows, KnowsPresence, KnowsCooldown, Between
    <3>4. Knows("clear", j)'
      BY <3>2, <3>3 DEF Knows, KnowsAttempt, KnowsRefusal, Refused, KnowsAccount,
         KnowsPresence, KnowsCooldown, Carrying, Deciding, Clearing, CarryStages
    <3> QED
      BY <2>2, <3>1, <3>4, SoloAt
  <2> QED
    BY <1>3, <2>1, <2>2
<1>8. FileSound'
  BY <1>1, <1>2 DEF SoloInv, FileSound, OpenUntombed, ClearExcludesPending,
     LocalClearOwed, TypeOK
<1>9. BooksSound'
  BY <1>1 DEF SoloInv, BooksSound, NoForgottenRedemption, TypeOK
<1> QED
  BY <1>1, <1>7, <1>8, <1>9, WireStaysEmpty DEF Rest

LEMMA SoloResetQuota ==
  ASSUME OneEngine, SoloInv, NEW e \in Engines, ResetQuota(e)
  PROVE  Rest'
<1> DEFINE a == job[e].acct
<1>1. PICK code \in {"ok", "error", "auth"} :
        /\ Goto(e, "cleared") /\ SetJob(e, [job[e] EXCEPT !.code = code])
        /\ owed' = IF code = "ok" THEN [owed EXCEPT ![a] = FALSE] ELSE owed
  BY DEF ResetQuota
<1>2. /\ pc[e] = "clear" /\ TypeOK /\ job[e] \in Jobs /\ a \in Accounts
      /\ UNCHANGED <<disk, mgmtCooling, wallet, wire, outcome>>
  BY AtAccount DEF ResetQuota, SoloInv, IInv, serverVars
<1>3. PICK j : j = [job[e] EXCEPT !.code = code]
  OBVIOUS
<1>4. /\ j.acct = a /\ j.todo = job[e].todo /\ j.code = code
      /\ pc'[e] = "cleared" /\ job'[e] = j
  BY <1>1, <1>2, <1>3, CodeFields DEF Goto, SetJob, TypeOK, EngineTypeOK
<1>5. /\ \A x \in Accounts : owed'[x] => owed[x]
      /\ code = "ok" => ~owed'[a]
  BY <1>1, <1>2 DEF TypeOK
<1>6. Knows("clear", job[e])
  BY <1>2 DEF SoloInv, AllKnow
<1>7. Knows("cleared", j)'
  BY <1>2, <1>4, <1>5, <1>6 DEF Knows, KnowsAttempt, KnowsRefusal, Refused, KnowsAccount,
     KnowsPresence, KnowsCooldown, Carrying, Deciding, Clearing, CarryStages,
     Between
<1>8. AllKnow'
  BY <1>4, <1>7, SoloAt
<1>9. FileSound'
  BY <1>2, <1>5, AlikeStutter, FileSoundKept DEF SoloInv
<1> QED
  BY <1>2, <1>8, <1>9, WireStaysEmpty, BooksKept
  DEF Rest, SoloInv, NothingRedeemed

LEMMA SoloRecordClear ==
  ASSUME OneEngine, SoloInv, NEW e \in Engines, RecordClear(e)
  PROVE  Rest'
<1> DEFINE a == job[e].acct
           c == IF job[e].code = "ok" THEN "none" ELSE "waiting"
<1>1. /\ pc[e] = "cleared" /\ Leave(e) /\ TypeOK
      /\ job[e] \in Jobs /\ a \in Accounts
      /\ \A x \in Accounts : disk[x] \in AccountStates
      /\ disk' = disk \/ disk' = [disk EXCEPT ![a].clear = c]
      /\ UNCHANGED <<wallet, wire, outcome, owed>>
  BY AtAccount DEF RecordClear, SoloInv, IInv, TypeOK, serverVars
<1>2. Knows("cleared", job[e])
  BY <1>1 DEF SoloInv, AllKnow
<1>3. \A x \in Accounts :
        /\ disk'[x].pending = disk[x].pending /\ disk'[x].tomb = disk[x].tomb
        /\ disk'[x].present = disk[x].present
        /\ disk'[x].clear = disk[x].clear \/ (x = a /\ disk'[x].clear = c)
  BY <1>1 DEF TypeOK, AccountStates
<1>4. AllKnow'
  <2>1. PICK j : j = Left(e)
    OBVIOUS
  <2>2. j.todo = job[e].todo /\ job[e].todo \subseteq Accounts
    BY <1>1, <2>1 DEF Jobs, Left, NoJob
  <2>3. \A x \in j.todo : disk'[x].present = "present"
    BY <1>2, <1>3, <2>2 DEF Knows, KnowsPresence
  <2>4. Knows("next", j)'
    BY <2>3, KnowsNext DEF Between
  <2>5. pc'[e] = "next" /\ job'[e] = j
    BY <1>1, <2>1 DEF Leave, Goto, SetJob, TypeOK, EngineTypeOK
  <2> QED
    BY <2>4, <2>5, SoloAt
<1>5. FileSound'
  <2>1. disk[a].pending = None /\ (job[e].code = "ok" => ~owed[a])
    BY <1>2 DEF Knows, KnowsAccount, Clearing
  <2> QED
    BY <1>1, <1>3, <2>1 DEF SoloInv, FileSound, OpenUntombed,
       ClearExcludesPending, LocalClearOwed
<1> QED
  BY <1>1, <1>4, <1>5, WireStaysEmpty, BooksKept
  DEF Rest, SoloInv, NothingRedeemed

\* The service acts on a request. Whoever waits for its answer waits with the
\* credit of the request, which the key they share stands for.
LEMMA AnswerFits ==
  ASSUME IInv, NEW m \in wire, pc[m.eng] = "await",
         job[m.eng].attempt.key = m.key
  PROVE  m.acct = job[m.eng].acct /\ m.credit = job[m.eng].attempt.credit
<1> DEFINE e == m.eng
           k == m.key
<1>1. /\ e \in Engines /\ k \in Keys /\ m.acct \in Accounts
      /\ m.credit \in Credits
  BY DEF IInv, TypeOK, Requests
<1>2. job[e].acct \in Accounts /\ job[e].attempt.credit \in Credits
  BY <1>1, AtAttempt DEF IInv, Attempts
<1>3. Uses(k, m.acct, m.credit)
  BY DEF Uses, WireUses
<1>4. Uses(k, job[e].acct, job[e].attempt.credit)
  BY <1>1 DEF Uses, ScanUses, Carries
<1> QED
  BY <1>1, <1>2, <1>3, <1>4 DEF IInv, KeysTraced

LEMMA SoloExecute ==
  ASSUME OneEngine, SoloInv, NEW m \in wire, Execute(m)
  PROVE  Rest'
<1> DEFINE e == m.eng
           j == job[e]
<1>1. /\ m \in Requests /\ e \in Engines /\ m.acct \in Accounts
      /\ m.credit \in Credits /\ m.key \in Keys /\ TypeOK
      /\ UNCHANGED <<disk, mgmtCooling, outcome, owed>>
      /\ wire' = wire \ {m}
  BY DEF Execute, SoloInv, IInv, TypeOK, Requests
<1>2. PICK p, i : p = pc[e] /\ i = j
  OBVIOUS
<1>3. Knows(p, i) /\ p \in Stages
  BY <1>1, <1>2 DEF SoloInv, AllKnow, TypeOK, EngineTypeOK
<1>4. j \in Jobs /\ j.todo \subseteq Accounts
  BY <1>1 DEF TypeOK, EngineTypeOK, Jobs
<1>5. PICK code \in Answers(m) :
        /\ wallet' = IF code = "reset"
                     THEN [wallet EXCEPT ![m.acct][m.credit] = m.key]
                     ELSE wallet
        /\ \/ UNCHANGED <<pc, job>>
           \/ /\ p = "await" /\ i.attempt.key = m.key
              /\ IF code \in {"reset", "already_redeemed"}
                 THEN Goto(e, "complete") /\ UNCHANGED job
                 ELSE /\ Goto(e, "settle")
                      /\ SetJob(e, [j EXCEPT !.code = code])
  BY <1>2 DEF Execute
<1>6. LateRequests = FALSE =>
        /\ p = "await" /\ m.acct = i.acct /\ m.key = i.attempt.key
        /\ m.credit = i.attempt.credit
  BY <1>2 DEF SoloInv, WireAwaited
<1>7. WireAwaited'
  <2> SUFFICES ASSUME LateRequests = FALSE, NEW n \in wire
               PROVE  n = m
    BY <1>1 DEF WireAwaited
  <2>1. n \in Requests /\ n.eng = e
    BY <1>1 DEF OneEngine, SoloInv, IInv, TypeOK, Requests
  <2>2. /\ n.acct = m.acct /\ n.key = m.key /\ n.credit = m.credit
        /\ n.try = m.try
    BY <2>1 DEF SoloInv, WireAwaited
  <2> QED
    BY <1>1, <2>1, <2>2 DEF Requests
<1>8. AllKnow'
  <2>1. CASE UNCHANGED <<pc, job>>
    <3>1. KnowsRefusal(p, i)'
      BY <1>6 DEF KnowsRefusal, Refused
    <3>2. Knows(p, i)'
      BY <1>1, <1>3, <3>1 DEF Knows, KnowsAttempt, KnowsAccount, KnowsPresence,
         KnowsCooldown
    <3> QED
      BY <1>1, <1>2, <2>1, <3>2, SoloAt
  <2>2. CASE p = "await" /\ Goto(e, "complete") /\ UNCHANGED job
    <3>1. Knows("complete", i)'
      BY <1>1, <1>3, <2>2 DEF Knows, KnowsAttempt, KnowsRefusal, Refused,
         KnowsAccount, KnowsPresence, KnowsCooldown, Carrying, Deciding,
         Clearing, CarryStages, Between
    <3>2. pc'[e] = "complete" /\ job'[e] = i
      BY <1>1, <1>2, <2>2 DEF Goto, TypeOK, EngineTypeOK
    <3> QED
      BY <1>1, <3>1, <3>2, SoloAt
  <2>3. CASE /\ p = "await" /\ i.attempt.key = m.key
             /\ code \notin {"reset", "already_redeemed"} /\ Goto(e, "settle")
             /\ SetJob(e, [j EXCEPT !.code = code])
    <3>1. PICK l : l = [j EXCEPT !.code = code]
      OBVIOUS
    <3>2. /\ l.acct = i.acct /\ l.attempt = i.attempt /\ l.todo = i.todo
      BY <1>2, <1>4, <3>1, CodeFields
    <3>3. wallet' = wallet /\ wallet[m.acct][m.credit] \notin Keys
      BY <1>5, <2>3 DEF Answers
    <3>4. m.acct = i.acct /\ m.credit = i.attempt.credit
      BY <1>2, <2>3, AnswerFits DEF SoloInv
    <3>5. Knows("settle", l)'
      BY <1>1, <1>3, <2>3, <3>2, <3>3, <3>4 DEF Knows, KnowsAttempt,
         KnowsRefusal, Refused, KnowsAccount, KnowsPresence, KnowsCooldown,
         Carrying, Deciding, Clearing, CarryStages, Between
    <3>6. pc'[e] = "settle" /\ job'[e] = l
      BY <1>1, <2>3, <3>1 DEF Goto, SetJob, TypeOK, EngineTypeOK
    <3> QED
      BY <1>1, <3>5, <3>6, SoloAt
  <2> QED
    BY <1>5, <2>1, <2>2, <2>3
<1>9. FileSound'
  BY <1>1, AlikeStutter, FileSoundKept DEF SoloInv
<1>10. BooksSound'
  <2> SUFFICES ASSUME LateRequests = FALSE PROVE NoForgottenRedemption'
    BY DEF BooksSound
  <2>1. disk[m.acct].pending # None /\ disk[m.acct].pending.key = m.key
    BY <1>3, <1>6 DEF Knows, KnowsAttempt, Carrying, CarryStages
  <2>2. outcome[m.key] = "open"
    BY <1>1, <2>1 DEF SoloInv, IInv, OpenIsHeld, Holds
  <2>3. \A a \in Accounts, c \in Credits :
          wallet'[a][c] = wallet[a][c] \/ wallet'[a][c] = m.key
    BY <1>1, <1>5 DEF TypeOK
  <2> QED
    BY <1>1, <2>2, <2>3 DEF SoloInv, BooksSound, NoForgottenRedemption
<1> QED
  BY <1>7, <1>8, <1>9, <1>10 DEF Rest

-----------------------------------------------------------------------------
(* The engine's life, the clock, the user, the host and the service.       *)

LEMMA SoloWorld ==
  ASSUME OneEngine, SoloInv, UNCHANGED <<pc, job, wire, outcome, owed>>, AlikeDisk,
         mgmtCooling' => mgmtCooling, NothingRedeemed
  PROVE  Rest'
<1>1. AllKnow'
  BY SoloStay
<1>2. WireAwaited'
  BY DEF SoloInv, WireAwaited
<1> QED
  BY <1>1, <1>2, FileSoundKept, BooksKept DEF Rest, SoloInv

LEMMA SoloElsewhere ==
  ASSUME OneEngine, SoloInv,
         \/ \E e \in Engines : RequestStop(e) \/ Cancel(e) \/ Restart(e)
         \/ MgmtCooldownElapses
         \/ \E a \in Accounts : HostChanges(a) \/ WindowRolls(a)
         \/ UNCHANGED vars
  PROVE  Rest'
<1>1. /\ UNCHANGED <<disk, pc, job, wire, wallet, outcome, owed>>
      /\ mgmtCooling' => mgmtCooling
  BY DEF RequestStop, Cancel, Restart, MgmtCooldownElapses, HostChanges,
     WindowRolls, vars, engineVars, serverVars
<1> QED
  BY <1>1, AlikeStutter, SoloWorld DEF NothingRedeemed, SoloInv, IInv

LEMMA SoloCreditMoves ==
  ASSUME OneEngine, SoloInv, NEW a \in Accounts, NEW c \in Credits,
         CreditGranted(a, c) \/ CreditLeaves(a, c)
  PROVE  Rest'
<1>1. /\ UNCHANGED <<disk, mgmtCooling, pc, job, wire, outcome, owed>>
      /\ \E v \in {"available", "gone"} : wallet' = [wallet EXCEPT ![a][c] = v]
  BY DEF CreditGranted, CreditLeaves, engineVars
<1>2. NothingRedeemed
  BY <1>1, KeysAssumption DEF NothingRedeemed, SoloInv, IInv, TypeOK
<1> QED
  BY <1>1, <1>2, AlikeStutter, SoloWorld DEF SoloInv, IInv

LEMMA SoloAccountTime ==
  ASSUME OneEngine, SoloInv, NEW a \in Accounts,
         \/ CooldownElapses(a) \/ BackoffElapses(a) \/ ClearFallsDue(a)
         \/ \E p \in BOOLEAN : SetParticipation(a, p)
  PROVE  Rest'
<1>1. disk[a] \in AccountStates /\ TypeOK
  BY DEF SoloInv, IInv, TypeOK
<1>2. PICK s : /\ Update(a, s)
               /\ s.pending = disk[a].pending /\ (s.cooling => disk[a].cooling)
               /\ s.tomb = disk[a].tomb /\ s.present = disk[a].present
               /\ s.clear = "none" <=> disk[a].clear = "none"
  <2>1. CASE CooldownElapses(a)
    <3> DEFINE s == [disk[a] EXCEPT !.cooling = FALSE]
    <3>1. Update(a, s)
      BY <2>1 DEF CooldownElapses, Update
    <3>2. /\ s.pending = disk[a].pending /\ ~s.cooling /\ s.tomb = disk[a].tomb
          /\ s.present = disk[a].present /\ s.clear = disk[a].clear
      BY <1>1 DEF AccountStates
    <3> HIDE DEF s
    <3> QED
      BY <3>1, <3>2
  <2>2. CASE BackoffElapses(a)
    <3> DEFINE s == [disk[a] EXCEPT !.backoff.active = FALSE]
    <3>1. Update(a, s)
      BY <2>2 DEF BackoffElapses, Update
    <3>2. /\ s.pending = disk[a].pending /\ s.cooling = disk[a].cooling
          /\ s.tomb = disk[a].tomb
          /\ s.present = disk[a].present /\ s.clear = disk[a].clear
      BY <1>1 DEF AccountStates
    <3> HIDE DEF s
    <3> QED
      BY <3>1, <3>2
  <2>3. CASE ClearFallsDue(a)
    <3> DEFINE s == [disk[a] EXCEPT !.clear = "due"]
    <3>1. Update(a, s)
      BY <2>3 DEF ClearFallsDue, Update
    <3>2. /\ s.pending = disk[a].pending /\ s.cooling = disk[a].cooling
          /\ s.tomb = disk[a].tomb
          /\ s.present = disk[a].present /\ s.clear = "due"
      BY <1>1 DEF AccountStates
    <3>3. disk[a].clear = "waiting"
      BY <2>3 DEF ClearFallsDue
    <3> HIDE DEF s
    <3> QED
      BY <3>1, <3>2, <3>3
  <2>4. ASSUME NEW p \in BOOLEAN, SetParticipation(a, p)
        PROVE  \E s : /\ Update(a, s)
                      /\ s.pending = disk[a].pending
                      /\ (s.cooling => disk[a].cooling)
                      /\ s.tomb = disk[a].tomb /\ s.present = disk[a].present
                      /\ s.clear = "none" <=> disk[a].clear = "none"
    <3> DEFINE s == [disk[a] EXCEPT !.participating = p]
    <3>1. Update(a, s)
      BY <2>4 DEF SetParticipation, Update
    <3>2. /\ s.pending = disk[a].pending /\ s.cooling = disk[a].cooling
          /\ s.tomb = disk[a].tomb
          /\ s.present = disk[a].present /\ s.clear = disk[a].clear
      BY <1>1 DEF AccountStates
    <3> HIDE DEF s
    <3> QED
      BY <3>1, <3>2
  <2> QED
    BY <2>1, <2>2, <2>3, <2>4
<1>3. AlikeDisk
  BY <1>1, <1>2, QuietFields, AlikeUpdate DEF Alike
<1>4. UNCHANGED <<mgmtCooling, pc, job, wallet, wire, outcome, owed>>
  BY DEF CooldownElapses, BackoffElapses, ClearFallsDue, SetParticipation,
     engineVars, serverVars
<1> QED
  BY <1>3, <1>4, SoloWorld DEF NothingRedeemed

LEMMA SoloNext == OneEngine /\ SoloInv /\ [Next]_vars => SoloInv'
<1> SUFFICES ASSUME OneEngine, SoloInv, [Next]_vars
             PROVE  SoloInv'
  OBVIOUS
<1>1. IInv'
  BY NextInvariant DEF SoloInv
<1>2. TypeOK'
  BY <1>1 DEF IInv
<1> SUFFICES Rest'
  BY <1>1 DEF SoloInv, Rest
<1>3. ASSUME NEW e \in Engines, Discover(e) \/ ScanStep(e) \/ LifeStep(e)
      PROVE  Rest'
  BY <1>2, <1>3, SoloDiscover, SoloLoad, SoloUsage, SoloCredits, SoloRecheck,
     SoloGivesWay, SoloNoAnswer, SoloSend, SoloAmbiguous, SoloVerifyCredits,
     SoloVerifyUsage, SoloReconcile, SoloPersist, SoloApplyFailure,
     SoloComplete, SoloResetQuota, SoloRecordClear, SoloElsewhere
  DEF ScanStep, LifeStep
<1>4. CASE ClockStep
  BY <1>4, SoloAccountTime, SoloElsewhere DEF ClockStep
<1>5. CASE WorldStep
  BY <1>5, SoloExecute, SoloAccountTime, SoloElsewhere, SoloCreditMoves
  DEF WorldStep
<1>6. CASE UNCHANGED vars
  BY <1>6, SoloElsewhere
<1> QED
  BY <1>3, <1>4, <1>5, <1>6 DEF Next

\* The invariant of an engine that is alone on its state directory.
THEOREM SoloInvariance == OneEngine => (Spec => []SoloInv)
<1> SUFFICES ASSUME OneEngine PROVE Spec => []SoloInv
  OBVIOUS
<1>1. Init => SoloInv
  BY SoloInit
<1>2. SoloInv /\ [Next]_vars => SoloInv'
  BY SoloNext
<1> QED
  BY <1>1, <1>2, PTL DEF Spec

-----------------------------------------------------------------------------
(* What follows.                                                           *)

\* Every request on its way is that of the account's open attempt, which no
\* answer, verification or exhaustion closes meanwhile.
THEOREM WireMatchesAttemptHolds == Solo => (Spec => []WireMatchesAttempt)
<1> SUFFICES ASSUME Solo PROVE Spec => []WireMatchesAttempt
  OBVIOUS
<1>1. SoloInv => WireMatchesAttempt
  <2> SUFFICES ASSUME SoloInv, NEW m \in wire
               PROVE  /\ Holds(m.acct, m.key)
                      /\ m.credit = disk[m.acct].pending.credit
    BY DEF WireMatchesAttempt
  <2>1. m.eng \in Engines /\ pc[m.eng] = "await"
    BY DEF Solo, SoloInv, IInv, TypeOK, Requests, WireAwaited
  <2>2. Knows("await", job[m.eng])
    BY <2>1 DEF SoloInv, AllKnow
  <2> QED
    BY <2>1, <2>2 DEF Solo, SoloInv, WireAwaited, Knows, KnowsAttempt, Carrying,
       CarryStages, Holds
<1>2. OneEngine
  BY DEF Solo
<1> QED
  BY <1>1, <1>2, SoloInvariance, PTL

\* What the service redeemed is an open attempt or a recorded success, across
\* lost answers, crashes and failed writes.
THEOREM NoForgottenRedemptionHolds == Solo => (Spec => []NoForgottenRedemption)
<1> SUFFICES ASSUME Solo PROVE Spec => []NoForgottenRedemption
  OBVIOUS
<1>1. SoloInv => NoForgottenRedemption
  BY DEF Solo, SoloInv, BooksSound
<1>2. OneEngine
  BY DEF Solo
<1> QED
  BY <1>1, <1>2, SoloInvariance, PTL

\* What is about to be sent is what the file says, of its attempt, its tombstones,
\* who was found and what cools down, whether requests may arrive late or not.
THEOREM SendsOnFileHolds == OneEngine => (Spec => []SendsOnFile)
<1> SUFFICES ASSUME OneEngine PROVE Spec => []SendsOnFile
  OBVIOUS
<1>1. SoloInv => SendsOnFile
  <2> SUFFICES ASSUME SoloInv, NEW e \in Engines, pc[e] = "consume"
               PROVE  LET j == job[e]
                          account == disk[j.acct] IN
                      /\ Holds(j.acct, j.attempt.key)
                      /\ account.pending.credit = j.attempt.credit
                      /\ j.attempt.credit \notin account.tomb
                      /\ account.present = "present"
                      /\ ~account.cooling /\ account.clear = "none"
                      /\ ~mgmtCooling
    BY DEF SendsOnFile
  <2>1. Knows("consume", job[e])
    BY DEF SoloInv, AllKnow
  <2>2. job[e].acct \in Accounts
    BY DEF SoloInv, IInv, TypeOK, EngineTypeOK, StageFits
  <2>3. /\ Holds(job[e].acct, job[e].attempt.key)
        /\ disk[job[e].acct].pending # None
        /\ disk[job[e].acct].pending.credit = job[e].attempt.credit
    BY <2>1 DEF Knows, KnowsAttempt, Carrying, CarryStages, Holds
  <2>4. disk[job[e].acct].present = "present" /\ ~mgmtCooling
    BY <2>1 DEF Knows, KnowsPresence, KnowsCooldown, Between
  <2>5. job[e].attempt.credit \notin disk[job[e].acct].tomb
    BY <2>2, <2>3 DEF SoloInv, FileSound, OpenUntombed
  <2>6. ~disk[job[e].acct].cooling /\ disk[job[e].acct].clear = "none"
    BY <2>2, <2>3 DEF SoloInv, IInv, PendingExcludesCooldown, FileSound,
       ClearExcludesPending
  <2> QED
    BY <2>3, <2>4, <2>5, <2>6
<1> QED
  BY <1>1, SoloInvariance, PTL

\* A success that was not cleared locally stays in the file as a clear to make.
THEOREM LocalClearOwedHolds ==
  OneEngine => (Spec => []LocalClearOwed)
<1> SUFFICES ASSUME OneEngine PROVE Spec => []LocalClearOwed
  OBVIOUS
<1>1. SoloInv => LocalClearOwed
  BY DEF SoloInv, FileSound
<1> QED
  BY <1>1, SoloInvariance, PTL

\* No attempt is open while the previous success waits to be cleared.
THEOREM ClearExcludesPendingHolds ==
  OneEngine => (Spec => []ClearExcludesPending)
<1> SUFFICES ASSUME OneEngine PROVE Spec => []ClearExcludesPending
  OBVIOUS
<1>1. SoloInv => ClearExcludesPending
  BY DEF SoloInv, FileSound
<1> QED
  BY <1>1, SoloInvariance, PTL

\* A credit the service called missing is never asked for again.
THEOREM TombstoneRespectedHolds == Solo => (Spec => []TombstoneRespected)
<1> SUFFICES ASSUME Solo PROVE Spec => []TombstoneRespected
  OBVIOUS
<1>1. SoloInv => TombstoneRespected
  <2> SUFFICES ASSUME SoloInv, NEW m \in wire
               PROVE  m.credit \notin disk[m.acct].tomb
    BY DEF TombstoneRespected
  <2>1. /\ m.eng \in Engines /\ pc[m.eng] = "await" /\ m.acct \in Accounts
    BY DEF Solo, SoloInv, IInv, TypeOK, Requests, WireAwaited
  <2>2. Knows("await", job[m.eng])
    BY <2>1 DEF SoloInv, AllKnow
  <2>3. disk[m.acct].pending # None /\ disk[m.acct].pending.credit = m.credit
    BY <2>1, <2>2 DEF Solo, SoloInv, WireAwaited, Knows, KnowsAttempt, Carrying,
       CarryStages
  <2> QED
    BY <2>1, <2>3 DEF SoloInv, FileSound, OpenUntombed
<1>2. OneEngine
  BY DEF Solo
<1> QED
  BY <1>1, <1>2, SoloInvariance, PTL

\* A request is sent only for an account that the last recorded discovery found.
THEOREM OnlyPresentConsumesHolds == Solo => (Spec => []OnlyPresentConsumes)
<1> SUFFICES ASSUME Solo PROVE Spec => []OnlyPresentConsumes
  OBVIOUS
<1>1. SoloInv => OnlyPresentConsumes
  <2> SUFFICES ASSUME SoloInv, NEW m \in wire
               PROVE  disk[m.acct].present = "present"
    BY DEF OnlyPresentConsumes
  <2>1. /\ m.eng \in Engines /\ pc[m.eng] = "await"
        /\ m.acct = job[m.eng].acct
    BY DEF Solo, SoloInv, IInv, TypeOK, Requests, WireAwaited
  <2>2. Knows("await", job[m.eng])
    BY <2>1 DEF SoloInv, AllKnow
  <2> QED
    BY <2>1, <2>2 DEF Knows, KnowsPresence, Between
<1>2. OneEngine
  BY DEF Solo
<1> QED
  BY <1>1, <1>2, SoloInvariance, PTL

-----------------------------------------------------------------------------
(* The global cooldown, which needs one engine but not that requests the    *)
(* client has given up on are lost.                                         *)

Guarded == \A e \in Engines : KnowsCooldown(pc[e], job[e])

\* Past the early returns, nothing but the record of a clear starts it.
LEMMA GuardPassed ==
  ASSUME OneEngine, TypeOK, Guarded, UNCHANGED mgmtCooling,
         NEW e \in Engines, pc[e] \notin Between \cup {"usage"},
         NEW q, q # "usage", Goto(e, q)
  PROVE  Guarded'
<1>1. \A f \in Engines : f = e
  BY DEF OneEngine
<1>2. pc'[e] = q
  BY DEF Goto, TypeOK, EngineTypeOK
<1> QED
  BY <1>1, <1>2 DEF Guarded, KnowsCooldown

LEMMA GuardBetween ==
  ASSUME OneEngine, TypeOK, NEW e \in Engines, NEW q \in Between, Goto(e, q)
  PROVE  Guarded'
<1>1. \A f \in Engines : f = e
  BY DEF OneEngine
<1>2. pc'[e] = q
  BY DEF Goto, TypeOK, EngineTypeOK
<1> QED
  BY <1>1, <1>2 DEF Guarded, KnowsCooldown

LEMMA GuardSame ==
  ASSUME Guarded, UNCHANGED <<pc, job>>, mgmtCooling' => mgmtCooling
  PROVE  Guarded'
BY DEF Guarded, KnowsCooldown

LEMMA GuardLoad ==
  ASSUME OneEngine, TypeOK, Guarded, NEW e \in Engines, LoadAccount(e)
  PROVE  Guarded'
<1>1. \A f \in Engines : f = e
  BY DEF OneEngine
<1>2. UNCHANGED mgmtCooling /\ pc[e] = "next"
  BY DEF LoadAccount
<1>3. CASE UNCHANGED pc
  BY <1>1, <1>2, <1>3 DEF Guarded, KnowsCooldown, Between
<1>4. ASSUME NEW a \in Accounts, NEW j,
             job' = [job EXCEPT ![e] = j],
             j.plan = Plan(disk[a], a \in job[e].off)
      PROVE  Guarded'
  <2>1. job'[e].plan = Plan(disk[a], a \in job[e].off)
    BY <1>4 DEF TypeOK, EngineTypeOK
  <2>2. mgmtCooling => job'[e].plan = "skip"
    BY <2>1 DEF Plan
  <2>3. pc'[e] \in {"usage", "next"}
    BY DEF LoadAccount, Goto, TypeOK, EngineTypeOK
  <2> QED
    BY <1>1, <1>2, <2>2, <2>3 DEF Guarded, KnowsCooldown, Between
<1>5. CASE ~UNCHANGED pc
  <2>1. PICK a \in job[e].todo :
          SetJob(e, [[job[e] EXCEPT !.todo = @ \ {a}] EXCEPT
            !.acct = a,
            !.plan = Plan(disk[a], a \in job[e].off),
            !.tomb = disk[a].tomb,
            !.avoid = IF disk[a].backoff = None THEN None ELSE disk[a].backoff.fp,
            !.cold = disk[a].cooling,
            !.attempt = IF Plan(disk[a], a \in job[e].off) = "resolve"
                        THEN disk[a].pending ELSE None])
    BY <1>5 DEF LoadAccount
  <2>2. a \in Accounts /\ job[e] \in Jobs
    BY <2>1 DEF TypeOK, EngineTypeOK, Jobs
  <2> DEFINE p == Plan(disk[a], a \in job[e].off)
             rest == [job[e] EXCEPT !.todo = @ \ {a}]
             j == [rest EXCEPT
                     !.acct = a, !.plan = p, !.tomb = disk[a].tomb,
                     !.avoid = IF disk[a].backoff = None THEN None
                               ELSE disk[a].backoff.fp,
                     !.cold = disk[a].cooling,
                     !.attempt = IF p = "resolve" THEN disk[a].pending
                                 ELSE None]
  <2>3. job' = [job EXCEPT ![e] = j]
    BY <2>1 DEF SetJob
  <2>4. j.plan = p
    <3> HIDE DEF p
    <3> QED
      BY <2>2 DEF Jobs
  <2> HIDE DEF j
  <2> QED
    BY <1>4, <2>2, <2>3, <2>4
<1> QED
  BY <1>3, <1>5

LEMMA GuardUsage ==
  ASSUME OneEngine, TypeOK, Guarded, NEW e \in Engines, UsageReply(e)
  PROVE  Guarded'
<1>1. \A f \in Engines : f = e
  BY DEF OneEngine
<1>2. UNCHANGED mgmtCooling /\ pc[e] = "usage"
  BY DEF UsageReply
<1>3. CASE Leave(e)
  BY <1>3, GuardBetween DEF Leave, Between
<1>4. CASE job[e].plan # "skip"
  <2>1. ~mgmtCooling
    BY <1>2, <1>4 DEF Guarded, KnowsCooldown, Between
  <2> QED
    BY <1>2, <2>1 DEF Guarded, KnowsCooldown
<1> QED
  BY <1>3, <1>4 DEF UsageReply

LEMMA GuardStep ==
  ASSUME OneEngine, TypeOK, Guarded, [Next]_vars
  PROVE  Guarded'
<1>1. ASSUME NEW e \in Engines, Discover(e) \/ ScanStep(e) \/ LifeStep(e)
      PROVE  Guarded'
  <2>1. CASE \/ Discover(e) \/ Reconcile(e) \/ FinishScan(e) \/ Crash(e)
             \/ PersistRefused(e) \/ MarkAmbiguous(e) \/ ApplyFailure(e)
             \/ CompleteFails(e) \/ RecordClear(e)
    <3>1. PICK q \in Between : Goto(e, q)
      BY <2>1 DEF Discover, Reconcile, FinishScan, Crash, PersistRefused,
         MarkAmbiguous, ApplyFailure, CompleteFails, RecordClear, Leave, Between
    <3> QED
      BY <3>1, GuardBetween
  <2>2. CASE \/ CreditsReply(e) \/ RecheckReply(e) \/ PersistAttempt(e)
             \/ SendConsume(e) \/ SendFails(e) \/ GiveUp(e) \/ VerifyCredits(e)
             \/ VerifyUsage(e) \/ Complete(e) \/ ResetQuota(e)
    <3>1. UNCHANGED mgmtCooling /\ pc[e] \notin Between \cup {"usage"}
      BY <2>2 DEF CreditsReply, RecheckReply, PersistAttempt, SendConsume,
         SendFails, GiveUp, VerifyCredits, VerifyUsage, Complete, ResetQuota,
         Between
    <3>2. PICK q : q # "usage" /\ Goto(e, q)
      BY <2>2 DEF CreditsReply, RecheckReply, PersistAttempt, SendConsume,
         SendFails, GiveUp, VerifyCredits, VerifyUsage, Complete, ResetQuota,
         Leave, Bump, TransientFailure
    <3> QED
      BY <3>1, <3>2, GuardPassed
  <2>3. CASE RequestStop(e) \/ Cancel(e) \/ Restart(e)
    BY <2>3, GuardSame DEF RequestStop, Cancel, Restart
  <2> QED
    BY <1>1, <2>1, <2>2, <2>3, GuardLoad, GuardUsage DEF ScanStep, LifeStep
<1>2. ASSUME NEW m \in wire, Execute(m) PROVE Guarded'
  <2>1. UNCHANGED mgmtCooling /\ m.eng \in Engines
    BY <1>2 DEF Execute, TypeOK, Requests
  <2>2. CASE UNCHANGED <<pc, job>>
    BY <2>1, <2>2, GuardSame
  <2>3. CASE /\ pc[m.eng] = "await"
             /\ Goto(m.eng, "complete") \/ Goto(m.eng, "settle")
    BY <2>1, <2>3, GuardPassed DEF Between
  <2> QED
    BY <1>2, <2>2, <2>3 DEF Execute
<1>3. CASE ClockStep
  BY <1>3, GuardSame DEF ClockStep, MgmtCooldownElapses, CooldownElapses,
     BackoffElapses, ClearFallsDue, engineVars
<1>4. ASSUME NEW a \in Accounts,
             \/ \E p \in BOOLEAN : SetParticipation(a, p)
             \/ HostChanges(a)
             \/ \E c \in Credits : CreditGranted(a, c) \/ CreditLeaves(a, c)
             \/ WindowRolls(a)
      PROVE  Guarded'
  BY <1>4, GuardSame DEF SetParticipation, HostChanges, CreditGranted,
     CreditLeaves, WindowRolls, engineVars
<1>5. CASE UNCHANGED vars
  BY <1>5, GuardSame DEF vars, engineVars
<1> QED
  BY <1>1, <1>2, <1>3, <1>4, <1>5 DEF Next, WorldStep

\* One engine makes no management call while the global cooldown runs, late
\* requests or not.
THEOREM NoCallWhileMgmtCoolingHolds ==
  OneEngine => (Spec => NoCallWhileMgmtCooling)
<1> SUFFICES ASSUME OneEngine PROVE Spec => NoCallWhileMgmtCooling
  OBVIOUS
<1>1. Init => Guarded
  BY DEF Init, Guarded, KnowsCooldown, Between
<1>2. TypeOK /\ Guarded /\ [Next]_vars => Guarded'
  BY GuardStep
<1>3. Guarded => ((\E e \in Engines : pc[e] = "clear" /\ pc'[e] = "cleared")
                    => ~mgmtCooling)
  BY DEF Guarded, KnowsCooldown, Between
<1> QED
  BY <1>1, <1>2, <1>3, TypeCorrect, PTL DEF Spec, NoCallWhileMgmtCooling

==============================================================================
