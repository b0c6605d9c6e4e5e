# cpa-codex-auto-reset in TLA+

The plugin watches Codex accounts and, when an account has used up its window,
consumes one of its *rate-limit reset credits*. A credit is money: the hard
part of the program is to spend it at most once, to know afterwards whether it
was spent, and to do so across crashes, lost answers, failed writes, hot
reconfigurations and a second process on the same state directory. These
modules model that part, check it with TLC and prove the core of it with TLAPS.

## 1. The system

| Component | State it keeps | Operations | What makes it correct | Modelled |
| --- | --- | --- | --- | --- |
| reset engine, `internal/reset/engine.go` | `active`, scan lock, context; per scan a snapshot and local variables | `Start`, `Stop`, `Scan` → `processAccount` → `persistAttempt`, `Consume`, `handleConsumeResult`, `resolvePending`, `completeSuccessfulReset`, `retryLocalClear`; the waits | an attempt is on file before its request is sent; one credit per idempotency key; nothing redeemed is forgotten; no attempt during a cooldown; a recorded success is always cleared locally; what failed is not asked again too early | yes: `ResetEngine`, `RetrySchedule` |
| account discovery, `internal/account/discovery.go` | the candidates of one scan | `Discover`, `prefer` | one file per account, whatever the order of the list and whatever else changes | yes: `AccountRegistry` |
| reconciliation and participation, `internal/state/participation.go` | in the state file | `ReconcileAccounts`, `SetParticipation` | an account that left keeps its safety state and the user's choice; only discovered accounts can be switched | yes: `AccountRegistry`, `ResetEngine` |
| state store, `internal/state/store.go`, `lock_*.go`, `sync_*.go` | `state.json`, `state.lock`, a mutex | `Load`, `Update` | a change is made atomically or not at all; reported as done means durable; no lost update | yes: `StateStore` |
| plugin runtime, `internal/plugin/runtime.go` | `closed`, `configured`, `config`, `engine`, `store` under a RWMutex | register, reconfigure, `Shutdown`, `Scan`, `Store` | at most one engine scans; no engine is leaked; nothing runs after `Shutdown` | yes: `PluginRuntime` |
| configuration, `internal/config/config.go` | none | `Parse`, `Validate` | nothing outside of the bounds gets through | yes, after the YAML: `Configuration` |
| codex client, `internal/codex/client.go` | none | `Usage`, `Credits`, `Consume` | fail closed: a list that is not complete is no list | in part: `CodexReplies`, outcomes in `ResetEngine` |
| state schema, `internal/state/model.go` | `AccountState`, `Attempt`, `Backoff`, `Cooldown`, `PendingLocalClear`, log | normalisation, log retention | (data) | in part: the safety fields |
| management client, host client | none | HTTP and host calls | an answer that is not understood is an error | in part: the outcomes |
| web handler, `internal/web/handler.go` | none | status, accounts, logs, participation, scan | uses the runtime's fields consistently; announces no earlier attempt than is made | in part: `PluginRuntime`, `AccountRegistry`, `RetryScheduleProps` |
| ABI glue, web page, release scripts | none that matters here | forwarding, presentation | | no, see section 8 |

Interactions. The host calls the plugin from any thread (`main.go`): lifecycle
calls replace the engine, `POST /scan` calls `Engine.Scan` directly, the status
page reads the state file, the participation switch writes it. The engine's own
goroutine scans on a ticker. A scan calls the host (discovery), the Codex
service (usage, credits, consume) and the host's management API (clear the
local cooldown), and between these calls it reads and writes the state file.
The file is the only thing that survives.

What is hard here: every decision is taken on a snapshot that is up to three
network calls old; the answer to a consume request may be lost after the
service acted on it; a write may be reported as failed after the file was
replaced; processes die between any two steps; two engines may work on one
directory; the host's files change while they are read; the waits are doubled
without a bound. `PROJECT.json` lists each such hazard at its line.

## 2. Modules

```
AtomicStore <--implements-- StateStore              the state file, step by step
     | (assumed by)              StateStoreProofs           TLAPS
KeyLedger, AttemptLedger <--implements-- ResetEngine    the scan, step by step
                    ResetEngineProps                its properties, IInv
                    ResetEngineProofs               TLAPS: types
                    ResetEngineSafetyProofs         TLAPS: any number of engines
                    ResetEngineSoloProofs           TLAPS: one engine
                    ResetEngineRefinementProofs     TLAPS: both ledgers, the lease
                    MCResetEngine                   TLC: symmetry, bound
EngineLease <--implements-- PluginRuntime, and ResetEngine with one engine
AccountRegistry, AccountRegistryProofs              who exists and takes part
Configuration, CodexReplies  <--  RetrySchedule     when the engine tries again
                    RetryScheduleProps, MCRetrySchedule, RetryScheduleProofs
PluginRuntime, PluginRuntimeProps, MCPluginRuntime, PluginRuntimeProofs
                                                    lifecycle of the engines
```

`ResetEngine` has what is written when, for several accounts and engines;
`RetrySchedule` how long each wait is, for one account; `AccountRegistry` the
first half of a scan, file by file, where `ResetEngine` has it as one step.

### ResetEngine

One action per step between two network calls or writes. `pc[e]` says where the
scan of engine `e` stands, `job[e]` holds the Go local variables that are still
needed there.

| Model | Code |
| --- | --- |
| `disk[a]` | `AccountState`: `present`, `participating`, `pending` = PendingAttempt, `tomb` = Tombstones, `cooling` = PostResetCooldown runs, `backoff` = FailureBackoff, `clear` = PendingLocalClear, `lastFp` = LastFingerprint |
| `mgmtCooling` | `State.ManagementCooldown` runs |
| `life[e]` | `active`, then the cancelled context, then a dead process |
| `Discover`, `Reconcile`, `LoadAccount`, `FinishScan` | `Scan`; the snapshot at the top of `processAccount` |
| `UsageReply`, `CreditsReply`, `RecheckReply` with `Plan`, `Decision` | `processAccount` up to the second credit query; `Plan` is the chain of early returns, in its order |
| `PersistAttempt`, `PersistRefused` with `MayPersist` | `persistAttempt`: the re-checks under the file lock |
| `SendConsume`, `SendFails`, `GiveUp`, `Execute` | `Consume`: the request leaves; no answer; the service acts, and its answer arrives or not |
| `MarkAmbiguous`, `ApplyFailure` | `handleConsumeResult`, `markAmbiguous`, `applyFailure` |
| `VerifyCredits`, `VerifyUsage` with `RetryJob` | `resolvePending` |
| `Complete`, `CompleteFails`, `ResetQuota`, `RecordClear` | `completeSuccessfulReset`, `retryLocalClear` |
| `RequestStop`, `Cancel`, `Crash`, `Restart` | `Stop`, a dying process, the next engine |
| `wallet`, `window`, `wire`, `host` | the Codex service, requests on their way, the credential files: not in the repository, modelled from how the code uses them |
| `outcome`, `owed` | history variables, used by properties only |

Abstractions. Time is what the code compares it with: a cooldown, a backoff or
a retry time runs or has elapsed, and may elapse at any moment. `job.cold`
records that a cooldown ran at the snapshot's clock or was written since, which
is what `persistAttempt` tests with the `now` it is given. Usage has four
levels and a credit three ages, those the thresholds tell apart. The log, the
snapshots for the status page are left out, since no decision reads them; how
long a backoff is, is the subject of `RetrySchedule`. After an accepted answer the code reads usage and credits
once more for its log; that changes no state. The count of verifications
saturates at `MaxVerify`, beyond which the code does not tell counts apart.
`Update` succeeds, fails, or fails after the file was replaced: exactly the
outcomes `AtomicStore` has. `LateRequests` says whether a request the client
has given up on can still be executed by the service later.

`AttemptLedger` is the abstract view: per account at most one open attempt;
it is open before anything is redeemed for it; it is closed as failed only when
nothing was redeemed. That takes an engine that is alone, and no late requests.
`KeyLedger` is what is left for any number of engines and with late requests: a
key is opened once, for one credit of one account, and closed once; it redeems
once, after it was opened, and as long as it is open only the credit it was
opened for. A closed attempt may still be redeemed.

`EngineLease` is where the two halves of the system meet. One engine of
`ResetEngine` stands for the engines that the plugin runtime creates one after
the other: `Restart` is the next of them. `EngineLease` says what that takes, at
most one engine able to begin a scan, and none before the scan of the last one
has ended. `PluginRuntime` implements it as long as the host does not overlap
lifecycle calls, and `ResetEngine` with one engine lives by it.

### StateStore and AtomicStore

A version of the file is the set of changes it contains. `mutex`, `flock`,
`pc` and `temp` follow `Update` through `saveUnlocked`: lock, load and change,
create, write, sync, rename, sync the directory; `Fail` is an error at any of
them, after the rename included; `Crash` kills the process of a `Store` and the
kernel drops its lock; `PowerLoss` leaves any version in `entries`, the ones
`state.json` may name since the directory was last synced, and tears one that
was not synced. A `Store` stands for a Go value: the two may be in two processes
or be the stores of an old and a new engine. On Windows `MoveFileEx` with
write-through makes rename and directory sync one step, which allows fewer
behaviours than checked here. Closing the lock file and unlocking the mutex is
one step, since nothing happens in between.

`AtomicStore` says what callers may rely on. One difference to `ResetEngine`
remains: a power loss may undo a write that was *reported as failed* after the
rename, while `ResetEngine` never takes back what a reader could see. No
request is sent under such an attempt, and an undone success is verified again.

### PluginRuntime

`closed`, `dir`, `engine`, `store` are the fields of `Runtime`; a lifecycle call
is its two critical sections (`Lifecycle`, `Install`) with `Engine.Stop` of the
old engine (`StopSwap`, `StopWait`, `StopDone`), `Build` and `Start` between and
after them. `Engine.Scan` is its locking: test `active`, `TryLock`, test again.
The goroutine of an engine is a process of its own. `QueryChecks` and
`QueryUses` are the two calls of `Store()` in `Handler.load`. The host caller is
set at initialisation and is never nil. A store goes by the name of the engine
it was built with. What the repository does not say is whether the host overlaps
lifecycle calls; the history variable `overlapped` records that it did, and the
properties that need it to behave carry `~overlapped`. `Shutdown` may come at
any moment, in the middle of a lifecycle call too: line 119 of `runtime.go` is
there for that.

### AccountRegistry

| Model | Code |
| --- | --- |
| `host[f]` | the credential file `f`; `None` when the host has none. Outside of the repository: it changes at any moment (`HostChanges`) |
| `List` | `ListAuthFiles` with its `disabled` and `unavailable` flags (`off`), the entries to look at (`todo`) |
| `Read`, `Skip`, `Usable`, `Candidate`, `Prefer`, `Keep` | one turn of the loop of `Discover`: `GetAuth` fails, returns nothing usable, or a candidate, which `prefer` compares with the one kept in `byAccountID` |
| `Reconcile`, `ReconcileFails` | `ReconcileAccounts` in its `Update`, which may fail |
| `Put` | `SetParticipation`, from a page that may be out of date |
| `reads`, `steady`, `choice` | history: what this scan has read, which files did not change since the list, what the user said last |

A file goes by its auth index, which is what `prefer` compares; indexes are
distinct, as the host's are. Names, mail addresses and times kept for display
are left out.

### Configuration, CodexReplies and RetrySchedule

`Configuration` takes a document as the sequence of its pairs, after
`normalizeKey`: a field given twice or of another type is an error
(`Decodes`), a missing one gets its default (`Given`), the key may come from
the environment (`WithKey`), bounds reject, and a threshold that is too low is
replaced (`Validated`). A pair is well typed (`WellTyped`) because the decoder of
each field yields nothing but its type or an error, which is `Malformed` here.
`CodexReplies` is the loop of `Credits` over the rows of a reply, with its
errors: an unknown status, no ID, no future expiry, an ID twice (`Faulty`,
`Readable`), a count that differs. The loop ends at the first error and all
errors are the same to the caller, so it is written as what holds of all rows.

| Model | Code |
| --- | --- |
| `Fits`, `Scaled` | `time.Duration(float64(base) * multiplier)`: 63 bits of nanoseconds; beyond that the least int64 on amd64, the greatest on arm64 |
| `BackoffDuration`, `TransientBackoff` | `backoffDuration`, `jitterFor` (its two extremes), `transientBackoff` with Retry-After |
| `backoff`, `cooling`, `clear.wait`, `mgmt` | minutes until the four moments the file holds |
| `Scan` | the early returns of `processAccount` |
| `Query` with `Verify`, `Plan` | `resolvePending`; the way to `persistAttempt` |
| `Consume` | success, already redeemed, refused, ambiguous |
| `ClearCooldown` with `Cleared`, `ClearPending` | `retryLocalClear`, with the ten minutes of an authentication failure |
| `TransientFailure`, `Bump`, `ApplyFailure` | what `recordTransientFailure`, `bumpPendingVerification` and `markAmbiguous`, `applyFailure` write |
| `BestEffort` | `_ = e.store.Update(...)`: the change is written or it is not, and the scan goes its way |
| `Succeed` with `RecordReset` | `completeSuccessfulReset`, whose `Update` may fail, or be reported as failed after it wrote: the local clear is then left to the next scan |
| `Reconfigure`, `Spend`, `Elapse` | a new configuration; someone else uses a credit; time passes to the end of the next wait |
| `failures`, `due`, `exact` | history: failures in a row, on record, of the open attempt or the local clear; what is left of the wait that was last recorded, computed by the engine's own rule without the width of a duration; whether it fits one |

Time is in minutes: every base is at least one, and all constants are whole
minutes; seconds of a base beyond its minutes are left out. `MaxLevel` bounds the counts, which the code does not.

## 3. Runs

| Run | Instance | Question |
| --- | --- | --- |
| `core` | 1 engine, 1 account, 2 credits, 2 keys, `MaxVerify` 2, `MaxWindow` 1, with stops, crashes, a disappearing account | types; write-ahead; every request on the wire is that of the open attempt; nothing redeemed is forgotten; a success is cleared locally; what is about to be sent is what the file says; `LedgerSpec` (refinement of `AttemptLedger`) |
| `shared` | 2 engines on one directory, 1 account | what the re-checks under the lock guarantee when both engines have stale snapshots; the inductive invariant; `KeyLedgerSpec`: what the loser of a race may still write |
| `accounts` | 2 accounts, late requests | one credit per key when an abandoned request is executed any time later; `KeyLedgerSpec`; the global management cooldown bars the other account |
| `live` | 1 engine, 1 account, 1 credit | scans end, attempts close, local clears complete |
| `registry` | 2 files, 2 accounts, participation off by default | of the files read for an account the best wins in any order; the account of a file that stays is found, by that file or a preferred one, and what is said of it is what it contains; a choice is never lost; the registry follows the host |
| `schedule` | 1 account, 2 credits, lists of at most 3 rows, eleven documents, `MaxLevel` 30 | no request before the wait that was last recorded is over, whichever writes fail, as long as a duration holds it; the page announces no earlier attempt; a damaged list closes no attempt |
| `store` | 2 stores × 2 goroutines, 2 changes | never torn, durable when reported, refinement of `AtomicStore`, every call returns |
| `runtime` | 3 threads, 2 engines, 2 directories | stopped engines stay quiet, no leak, shutdown stops everything, what is served matches the configuration; engines take turns while calls do not overlap (`LeaseSpec`, and with it `OneEngineScans`) |
| `runtime_live` | 2 threads, 2 engines | calls return, goroutines end, an installed engine is scanned |
| `retry`, `lost_backoff`, `nil_store` | as small as the counterexample | the first three findings of section 6 |

Why the bounds are enough to be interesting. Two keys give a second attempt
after the first is closed, and a wrong reuse of a key a second attempt to hit.
Two credits give a retry another credit to go wrong on, and a tombstone
something to skip. `MaxVerify` 2 is the code's own value (engine.go:30): an
attempt is retried twice before it is exhausted. One roll-over of the window
changes the fingerprint between a failure and the next attempt. In `shared` and
`accounts` the constraint `SharedBound` leaves out orderly stops and opt-outs,
which multiply the states and are explored by `core`; crashes and restarts stay.

Two files can be of one account, which makes `prefer` decide, or of two, one of
which must not hide the other; each may be rewritten for the other account
between the list and its reading. In `schedule` the documents are the least and
the greatest backoff, a plugin that is switched off or has no key, and those
that `Parse` rejects or corrects; a wait of one minute doubles beyond what a
duration can hold at level 29, which `MaxLevel` 30 includes, and the greatest
base of a week long before. Three rows are one more than there are credits: one can
be missing, repeated or damaged beside a complete list.

Keys are interchangeable and so are the engines, the accounts of `accounts` and
the threads, so these safety runs use symmetry; the runs of liveness properties
do not. Two engines of `PluginRuntime` are one hot reconfiguration, and two
concurrent ones. No run disables the deadlock check.

## 4. Fairness

*Scan* (`Fairness` in `ResetEngineProps`). Weak fairness of the scan's steps:
goroutines run, and every network call has an HTTP timeout (`GiveUp` is one of
the steps). Weak fairness of `Discover`: the ticker. Weak fairness of the clock
steps: time passes. Strong fairness that a step tried again and again does not
fail every time: reconciling, reading the file, verifying, recording, clearing.
Without it an account whose service is down for ever is rightly left waiting.
`AttemptCloses` and `ClearCompletes` also suppose that from some time on nobody
stops the engine, opts the account out or disables it (`Calm`): the code then
deliberately does nothing.

*Registry* (`FairSpec`). Weak fairness of `List`, the ticker again, and of the
turns of the loop and the end of a scan, whether they succeed or not; strong
fairness of `Reconcile` and of reading a file: neither `Update` nor `GetAuth`
fails for ever. That an account whose file stays gets *and stays* present also
needs that its file can be read from some time on (`ReadsSucceed`, a premise of
that half of `RegistryConverges`): at the first failed read the code takes an
account for absent, though it keeps all it knows of it.

*Store.* Weak fairness of the steps of a call. Strong fairness of taking the
mutex: `sync.Mutex` hands itself over to a goroutine that has waited for a
millisecond. Nothing is assumed of the lock file, for which nobody waits.

*Runtime.* Weak fairness of the steps of calls and scans (that a scan ends is
`ScanEnds`) and of the ticker; strong fairness of `LoopExit`, since `select`
chooses among ready cases at random, and of `scanMu.Lock` in `Stop`.

## 5. Proofs

All theorems hold for every value of the constants that satisfies the named
assumptions of the modules. These are: credits are a finite set of numbers
(their order of expiry), as file indexes are numbers; bounds are natural numbers
and flags Boolean; the host's statuses are a subset of three with `"enabled"` in
it; keys are none of the three words a wallet uses for "not redeemed"; threads
and engines are different; documents are well typed, the strings include the
defaults, and the environment gives each of them a string; and `None` and
`Unreadable` are none of the values they stand beside.

### The reset engine, any number of them

For every number of engines, accounts, credits and keys, with late requests or
without (`ResetEngineProofs`, `ResetEngineSafetyProofs`):

| Theorem | Says |
| --- | --- |
| `TypeCorrect` | `TypeOK`: types, and each stage has the account, credit or attempt it dereferences |
| `Invariance` | the inductive invariant `IInv` |
| `WriteAheadHolds` | no request and no redemption under a key that was not written to the file first; an attempt without an outcome is in the file, under one account |
| `OneCreditPerKeyHolds` | a key redeems at most one credit |
| `PendingExcludesCooldownHolds` | no open attempt while its account cools down |
| `AttemptStableHolds` | an open attempt is never replaced; key, credit and fingerprint stay, its count never falls |
| `ImplementsKeyLedger` (`ResetEngineRefinementProofs`) | the refinement: every step opens, redeems or closes a key as `KeyLedger` allows, or leaves it alone |

`IInv` is `TypeOK /\ KeysTraced /\ OpenIsHeld /\ PendingExcludesCooldown /\
ColdKnown`:

* `OneCreditPerKey` is about the service's books only and says nothing of what
  may be redeemed next. `KeysTraced` extends it to every place a key can be: in
  the file, in a scan's local variables, on the wire, in the books. Wherever key
  `k` turns up it stands for the same credit of the same account, and it was
  written to the file before. A retry copies it from the file, a late request
  carries it; neither can change what it stands for.
* `OpenIsHeld` ties the history to the file: the open keys are those of the
  attempts in the file. It makes a key that `newAttempt` draws really fresh, and
  shows which attempt `applyFailure` closes.
* `PendingExcludesCooldown` is not inductive alone: another engine may record a
  success, and with it a cooldown, after this one took its snapshot.
  `ColdKnown` is the missing fact: whoever is on the way to `persistAttempt`
  sees that cooldown there, because it compares with its snapshot's clock.

The steps are classed by what they do to the file's attempts. *Quiet* steps
leave every open attempt open and unchanged but for its count; `PersistAttempt`
opens one; `ApplyFailure` and `Complete` close one. Each part of `IInv` is
proved once per class (`TracedWhenPersisted`, `OpenWhenFailed`, ...), after a
lemma per action has put the action in its class; `NextInvariant` brings them
together. `ResetEngineProofs` has one lemma per action for the types.

The same classes make the steps of `KeyLedger`, and `IInv` its guards: a drawn
key is unused (`OpenIsHeld`), a closed one was open (`Complete` compares keys
under the lock; `applyFailure` does not, and closes whatever the file holds, but
as a key that was open), and what a request redeems is what its key was opened
for (`KeysTraced`). `WalletStep` is the other half: the ways the service's books
can change.

### One engine

The other properties of the engine are false for two engines on one directory:
`applyFailure` and the verification act on what one engine knows.
`ResetEngineSoloProofs` proves them under `OneEngine`: there is one engine,
however often it stops, crashes and restarts; accounts, credits, keys and bounds
are arbitrary. Some are moreover false when a request the client has given up on
reaches the service later, after the engine looked; these are proved under
`Solo`, which adds `LateRequests = FALSE`. What they say of a request on its way
`SendsOnFile` says of the moment it is sent, and needs `OneEngine` only.

| Theorem | Says |
| --- | --- |
| `SoloInvariance` | the inductive invariant `SoloInv` (`OneEngine`) |
| `WireMatchesAttemptHolds` | a request on its way is for the open attempt of its account (`Solo`) |
| `NoForgottenRedemptionHolds` | what was redeemed is open or a success (`Solo`) |
| `SendsOnFileHolds` | what is about to be sent is the open attempt on file, its credit without a tombstone, its account found and not cooling down (`OneEngine`) |
| `LocalClearOwedHolds`, `ClearExcludesPendingHolds` | a success the management API has not cleared is on record as owed, and no attempt is open meanwhile (`OneEngine`) |
| `TombstoneRespectedHolds`, `OnlyPresentConsumesHolds` | no request for a credit with a tombstone, nor for an account the last discovery did not find (`Solo`) |
| `NoCallWhileMgmtCoolingHolds` | no management call while the global cooldown runs (`OneEngine`) |
| `ImplementsLedger` | the refinement: every step of the engine opens, redeems or closes an attempt of `AttemptLedger` as it may, or leaves the ledger alone (`Solo`) |
| `ImplementsLease` | the engine scans only while active, and is active again only when its scan has ended (`OneEngine`) |

`SoloInv` adds to `IInv` what the local variables of the scan are good for:
`Knows(p, j)` says, for each stage `p` a scan can be at, what of its snapshot `j`
still fits the file, the service's books and the global cooldown (the attempt,
that it was not redeemed when it is about to be written off, the tombstones, who
is present). None of the properties is inductive without it: each is decided
steps before the state it is about. `WireAwaited` says that the request on its
way is the one waited for; it, and the parts about what was not redeemed, say so
only for `LateRequests = FALSE`, while everything about the file holds without. A step has two parts, and the proof of each action
takes them one at a time: the engine's next stage fits the file as it was, and
the change of the file does not disturb what a stage relies on. The world's
steps only have the second part.

### The registry

| Theorem of `AccountRegistryProofs` | Says |
| --- | --- |
| `TypeCorrect` | types; between scans nothing of a scan is left |
| `BestWinsHolds` | the file kept is the best of those read, in any order |
| `SteadySeenHolds` | the account of a file that does not change during a discovery and can be read is found, and no such file of it would be preferred to the one kept; what is registered of an unchanged file is what it contains |
| `ChoiceKeptHolds` | a choice survives every reconciliation, and the absence of the account |

`BestWins` is inductive with the types, by the lemma `PreferWins`: the winner of
`prefer` against the winner so far is the winner of all. `SteadySeen` compares
the winner with the files as they are now, not as they were read, and needs
`SteadyRead`: what is known of every file that has not changed. It does not say
that the winner is a file of the account still; one that was only when it was
read may be kept until the next scan. `ChoiceKept` needs that nothing was chosen for an account that is not on
file (`Unchosen`).

### The state file

`StateStoreProofs` has `TypeCorrect`, `NeverTornHolds`, `AckedDurableHolds`, and
`Implements`: the steps of `Update`, on any number of stores and goroutines,
with failures, dying processes and power loss anywhere, implement
`AtomicStore`. `IInv` adds to these properties that who is beyond the lock file
has it (`LockHeld`), that what is being built extends the file as it still is
(`TempGrows`: this is where both locks are needed) and is whole and synced when
it is renamed (`TempSafe`), and that a power loss can only take changes back
(`EntriesOld`).

### The runtime

| Theorem of `PluginRuntimeProofs` | Says |
| --- | --- |
| `TypeCorrect`, `QuietAfterStopHolds` | whatever calls overlap: types, scan locks, and an engine whose `Stop` passed its scan lock is quiet for ever |
| `OneEngineScansHolds`, `NoLeakedEngineHolds`, `ShutdownStopsHolds`, `ServedMatchesConfigHolds` | for a host that does not overlap lifecycle calls, with `Shutdown` at any moment: one engine scans, none is leaked, nothing runs after `Shutdown`, what is served is what is configured |

The invariant says what a call alone knows of: the engine it stops, the one it
builds (`JobStages`, `BuildsFresh`, `UnusedNowhere`), and why a scan that still
runs is waited for (`ScansCovered`, `StoppedInactive`, `Quiet`). `Orderly` holds
while calls have not overlapped: one call at a time has an engine in its hands,
none is installed meanwhile, and one that is able to scan is installed or in
those hands. Steps that only read the fields share one proof (`Reads`).

`ImplementsLease`: until lifecycle calls overlap, the engines take turns as
`EngineLease` says. With the theorem of the same name for the reset engine this
is what makes `OneEngine` a fair hypothesis: the engines of one runtime behave as
one engine that is restarted, and a second one takes a second process on the
directory or overlapping calls, which is what the theorems for any number of
engines are for. (`Stop` waits for the scan lock without a limit, so that there
is no third way; its 15 seconds are for the goroutine that ticks.)

### The waits

`RetryScheduleProofs`: for every set of configuration documents, every reply and
every `MaxLevel`, `SpacedHolds` and `NextAllowedHonestHolds`. The invariant
`SpacedInv` says that the level of the next wait of an attempt, or of a local
clear, is the number of its failures on record, that the wait in force covers
what is left of the one that was last recorded (provided a duration
holds it), what a stage has passed, and that the
configuration in force has the bounds of `Validate` (`ParseBounds`).
`BackoffDurationExact` is the lemma on the arithmetic: what fits is exact.
`TypeCorrect` has the types, among them that `Parse` returns a configuration with
every field, of its type and within its bounds (`ParseTyped`). `NoFalseSuccessHolds`
is about replies of any length: by `ListComplete` a list that is taken at its
word is exactly the credits the service has available. The rows that are counted
have distinct credits and are as many as the service counts, so that none is
missing (an injection between finite sets of one size).

## 6. Where the code and its documentation disagree

The first three are runs that TLC ends with a counterexample; `PROJECT.json`
quotes the lines. The fourth can be read off one line and has no run.

1. `retry`: `resolvePending` sends the request again on the participation flag
   of a snapshot that is three network calls old, and discards the usage it has
   just read. An account opted out meanwhile, with a window of which nothing is
   used, still consumes a credit.
2. `lost_backoff` (a defect): the doubled wait is converted to a duration before
   it is capped. At the 26th failed verification in a row with the default of
   300 seconds (the 29th failed local clear) it does not fit; on amd64 the wait
   then lies in the past, and every scan asks again. Nothing bounds the count.
3. `nil_store` (a defect): `Handler.load` asks twice for the store. A
   reconfiguration in between makes the second answer nil; instead of
   `state_unavailable` the host gets `plugin_panic`.
4. `README.md`, line 40, calls `failure-backoff-seconds` the initial value of an
   exponential backoff for temporary errors ("临时错误初始指数退避"), but
   `recordTransientFailure` (`engine.go`, line 526) always takes level 1. Outside
   of an attempt every failed query waits the base, however many failed before;
   only an open attempt and a local clear double. The model has it as the code
   does, so `Spaced` and its theorem promise no more than the base there.

Seen while modelling, about obligations the repository states nowhere:

* A credit that left the list by expiring counts as consumed: the account is
  recorded as reset, cools down and its quota is cleared.
* A failed read overwrites the backoff of a refused attempt, and with it the
  fingerprint that keeps the same attempt from being made again.
* Nobody looks at the error of an `Update` that should record a wait. When it
  fails there is no wait, and the next scan, which a user can start at any
  moment, asks at once. `Spaced` is about the waits that were recorded.
* The jitter is added after the cap, and Retry-After has no cap.
* Two *overlapping* lifecycle calls leak an engine that nothing will ever stop
  (the second `Install` overwrites the first). What two engines then do to one
  directory is the run `shared`.
* `applyFailure` closes whatever attempt the file holds, without comparing keys:
  with two engines it may close the other's. What it cannot do is overturn a
  verdict (`ImplementsKeyLedger`), make a key redeem twice (`OneCreditPerKeyHolds`)
  or replace an open attempt (`AttemptStableHolds`).
* A local clear is retried with the auth index it was recorded with.
* One credit that is listed as available although its time has passed makes the
  whole list an error, and with it every decision about the account.

## 7. Only model-checked

* Liveness: `ScanEnds`, `AttemptCloses`, `ClearCompletes`, `RegistryConverges`,
  `CallEnds`, `CallReturns`, `LoopEnds`, `EngineScans`. Fairness and `ENABLED`
  are out of this prover's reach.

Every invariant, action property and refinement of a passing run is proved as well. The
other way round, some theorems are about properties that no run names because
another property of a run says as much: `PendingExcludesCooldown` is a part of
`IInv`, `OneEngineScans` follows from `LeaseSpec`, and `TombstoneRespected` and
`OnlyPresentConsumes` are, of a request on its way, what `SendsOnFile` is of the
moment it is sent; that a single reset engine keeps `EngineLease` is proved
only.

## 8. Not modelled

Parsing and formatting: YAML, JSON and URLs, credential files and account
references, the usage windows of a reply, the HTTP routes and the same-origin
test, the ABI envelopes. They hold no state; what is told apart of their
outcomes is in the models, the class of a URL in `Configuration` for one. The
log and the status fields of the state schema are data no decision reads. Memory
ownership across cgo, the web page and the release scripts are outside of what
TLC can say something about. That a state directory created by the plugin is
itself synced in its parent is outside of `StateStore`, which begins with the
directory. Calls into the host (credential files, HTTP) are taken to return.

## 9. Plan

Done: every component that keeps state, its properties and their proofs, the
refinements, the configuration and the arithmetic of the waits. What is left:

1. What the `Solo` theorems become for two engines: which of them survive when
   both look at the file between the other's request and its answer.
2. The reading of usage windows (`internal/codex/client.go`) as an operator, if
   the rules for missing fields grow beyond the present ones.
