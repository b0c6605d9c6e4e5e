--------------------- MODULE ResetEngineRefinementProofs ---------------------
(***************************************************************************)
(* What the reset engine implements, for any accounts, credits, keys and   *)
(* bounds: KeyLedger for any number of engines and with late requests,     *)
(* EngineLease when it is alone on its state directory, and AttemptLedger  *)
(* when moreover no request arrives late.                                  *)
(***************************************************************************)
EXTENDS ResetEngineSoloProofs

-----------------------------------------------------------------------------
(* The service's books.                                                    *)

\* The service changes no book, grants or withdraws a credit it had not
\* redeemed, or redeems an available credit for a request on the wire.
LEMMA WalletStep ==
  ASSUME TypeOK, [Next]_vars
  PROVE  \/ UNCHANGED wallet
         \/ \E a \in Accounts, c \in Credits, v \in {"available", "gone"} :
              /\ wallet[a][c] \notin Keys
              /\ wallet' = [wallet EXCEPT ![a][c] = v]
         \/ \E m \in wire :
              /\ wallet[m.acct][m.credit] = "available"
              /\ wallet' = [wallet EXCEPT ![m.acct][m.credit] = m.key]
              /\ UNCHANGED <<disk, outcome>>
<1>1. ASSUME NEW m \in wire, Execute(m)
      PROVE  \/ UNCHANGED wallet
             \/ /\ wallet[m.acct][m.credit] = "available"
                /\ wallet' = [wallet EXCEPT ![m.acct][m.credit] = m.key]
                /\ UNCHANGED <<disk, outcome>>
  BY <1>1 DEF Execute, Answers
<1>2. ASSUME NEW a \in Accounts, NEW c \in Credits,
             CreditGranted(a, c) \/ CreditLeaves(a, c)
      PROVE  \E v \in {"available", "gone"} :
               /\ wallet[a][c] \notin Keys
               /\ wallet' = [wallet EXCEPT ![a][c] = v]
  BY <1>2, KeysAssumption DEF CreditGranted, CreditLeaves
<1>3. ASSUME NEW e \in Engines, Discover(e) \/ ScanStep(e) \/ LifeStep(e)
      PROVE  UNCHANGED wallet
  BY <1>3 DEF ScanStep, LifeStep, serverVars, Discover, Reconcile, LoadAccount,
     FinishScan, UsageReply, CreditsReply, RecheckReply, PersistAttempt,
     PersistRefused, SendConsume, SendFails, GiveUp, MarkAmbiguous,
     ApplyFailure, VerifyCredits, VerifyUsage, Complete, CompleteFails,
     ResetQuota, RecordClear, RequestStop, Cancel, Crash, Restart
<1>4. ASSUME NEW a \in Accounts,
             \/ CooldownElapses(a) \/ BackoffElapses(a) \/ ClearFallsDue(a)
             \/ \E p \in BOOLEAN : SetParticipation(a, p)
             \/ HostChanges(a) \/ WindowRolls(a)
      PROVE  UNCHANGED wallet
  BY <1>4 DEF CooldownElapses, BackoffElapses, ClearFallsDue, SetParticipation,
     HostChanges, WindowRolls, serverVars
<1>5. MgmtCooldownElapses \/ UNCHANGED vars => UNCHANGED wallet
  BY DEF MgmtCooldownElapses, vars, serverVars
<1> QED
  BY <1>1, <1>2, <1>3, <1>4, <1>5 DEF Next, ClockStep, WorldStep

\* What the books say after one entry changed.
LEMMA WalletSet ==
  ASSUME TypeOK, NEW a \in Accounts, NEW c \in Credits, NEW v,
         wallet' = [wallet EXCEPT ![a][c] = v]
  PROVE  /\ wallet'[a][c] = v
         /\ \A b \in Accounts, d \in Credits :
              (b # a \/ d # c) => wallet'[b][d] = wallet[b][d]
BY DEF TypeOK

-----------------------------------------------------------------------------
(* The ledger of keys.                                                     *)

Entries == [key : Keys, acct : Accounts, credit : Credits]

OpenEntries == {r \in Entries : FileUses(r.key, r.acct, r.credit)}

Redemptions == {r \in Entries : wallet[r.acct][r.credit] = r.key}

Entry(k, a, c) == [key |-> k, acct |-> a, credit |-> c]

LEMMA EntryFields ==
  /\ \A r \in Entries : /\ r.key \in Keys /\ r.acct \in Accounts
                        /\ r.credit \in Credits
                        /\ r = Entry(r.key, r.acct, r.credit)
  /\ \A k \in Keys, a \in Accounts, c \in Credits :
       /\ Entry(k, a, c) \in Entries /\ Entry(k, a, c).key = k
       /\ Entry(k, a, c).acct = a /\ Entry(k, a, c).credit = c
BY DEF Entries, Entry

\* The attempt an account has on file is the one entry of that account.
LEMMA OpenEntry ==
  ASSUME TypeOK, NEW a \in Accounts, disk[a].pending # None
  PROVE  LET r == Entry(disk[a].pending.key, a, disk[a].pending.credit)
         IN /\ r \in OpenEntries
            /\ \A s \in OpenEntries : s.acct = a => s = r
<1>1. disk[a].pending.key \in Keys /\ disk[a].pending.credit \in Credits
  BY DEF TypeOK, AccountStates, Attempts
<1> QED
  BY <1>1, EntryFields DEF OpenEntries, FileUses

\* While the attempts on file stay the same, so do the entries.
LEMMA EntriesSteady ==
  ASSUME \A k \in Keys, a \in Accounts, c \in Credits :
           FileUses(k, a, c)' <=> FileUses(k, a, c)
  PROVE  OpenEntries' = OpenEntries
BY EntryFields DEF OpenEntries, Entries

\* The service adds at most one redemption, of a credit that was available, for
\* a request on the wire.
LEMMA RedemptionStep ==
  ASSUME TypeOK, [Next]_vars
  PROVE  \/ Redemptions' = Redemptions
         \/ \E m \in wire :
              /\ m.key \in Keys /\ m.acct \in Accounts /\ m.credit \in Credits
              /\ wallet[m.acct][m.credit] = "available"
              /\ Redemptions' = Redemptions \cup {Entry(m.key, m.acct, m.credit)}
              /\ UNCHANGED <<disk, outcome>>
<1>1. CASE UNCHANGED wallet
  BY <1>1 DEF Redemptions
<1>2. ASSUME NEW a \in Accounts, NEW c \in Credits,
             NEW v \in {"available", "gone"}, wallet[a][c] \notin Keys,
             wallet' = [wallet EXCEPT ![a][c] = v]
      PROVE  Redemptions' = Redemptions
  <2>1. v \notin Keys
    BY KeysAssumption
  <2> QED
    BY <1>2, <2>1, WalletSet, EntryFields DEF Redemptions
<1>3. ASSUME NEW m \in wire, wallet[m.acct][m.credit] = "available",
             wallet' = [wallet EXCEPT ![m.acct][m.credit] = m.key]
      PROVE  /\ m.key \in Keys /\ m.acct \in Accounts /\ m.credit \in Credits
             /\ Redemptions' = Redemptions \cup {Entry(m.key, m.acct, m.credit)}
  <2>1. m.key \in Keys /\ m.acct \in Accounts /\ m.credit \in Credits
    BY DEF TypeOK, Requests
  <2>2. "available" \notin Keys
    BY KeysAssumption
  <2>3. /\ wallet'[m.acct][m.credit] = m.key
        /\ \A b \in Accounts, d \in Credits :
             (b # m.acct \/ d # m.credit) => wallet'[b][d] = wallet[b][d]
    BY <1>3, <2>1 DEF TypeOK
  <2>4. ASSUME NEW r \in Entries
        PROVE  r \in Redemptions'
                 <=> r \in Redemptions \cup {Entry(m.key, m.acct, m.credit)}
    <3>1. r \in Redemptions' <=> wallet'[r.acct][r.credit] = r.key
      BY DEF Redemptions, Entries
    <3>2. r \in Redemptions <=> wallet[r.acct][r.credit] = r.key
      BY DEF Redemptions
    <3>3. CASE r.acct = m.acct /\ r.credit = m.credit
      BY <1>3, <2>1, <2>2, <2>3, <3>1, <3>2, <3>3, EntryFields
    <3>4. CASE r.acct # m.acct \/ r.credit # m.credit
      BY <2>1, <2>3, <3>1, <3>2, <3>4, EntryFields
    <3> QED
      BY <3>3, <3>4
  <2>5. /\ Redemptions' \subseteq Entries /\ Redemptions \subseteq Entries
        /\ Entry(m.key, m.acct, m.credit) \in Entries
    BY <2>1, EntryFields DEF Redemptions, Entries
  <2> QED
    BY <2>1, <2>4, <2>5
<1> QED
  BY <1>1, <1>2, <1>3, WalletStep

LEMMA KeyLedgerStep ==
  ASSUME IInv, [Next]_vars
  PROVE  Books!Next \/ UNCHANGED Books!vars
<1>0. TypeOK /\ KeysTraced /\ OpenIsHeld
  BY DEF IInv
<1>1. /\ Books!Entries = Entries
      /\ (OpenEntries' = OpenEntries /\ outcome' = outcome
          /\ Redemptions' = Redemptions) => UNCHANGED Books!vars
      /\ \A r \in Entries :
           Books!Open(r) <=>
             /\ outcome[r.key] = "unused"
             /\ \A s \in OpenEntries : s.acct # r.acct
             /\ OpenEntries' = OpenEntries \cup {r}
             /\ outcome' = [outcome EXCEPT ![r.key] = "open"]
             /\ Redemptions' = Redemptions
      /\ \A r \in Entries :
           Books!Redeem(r) <=>
             /\ outcome[r.key] # "unused"
             /\ outcome[r.key] = "open" => r \in OpenEntries
             /\ \A s \in Redemptions :
                  s.key # r.key /\ (s.acct = r.acct => s.credit # r.credit)
             /\ Redemptions' = Redemptions \cup {r}
             /\ OpenEntries' = OpenEntries /\ outcome' = outcome
      /\ \A r \in Entries, v \in {"success", "failed"} :
           Books!Close(r, v) <=>
             /\ r \in OpenEntries /\ outcome[r.key] = "open"
             /\ OpenEntries' = OpenEntries \ {r}
             /\ outcome' = [outcome EXCEPT ![r.key] = v]
             /\ Redemptions' = Redemptions
  BY DEF Books!Entries, Books!vars, Books!Open, Books!Redeem, Books!Close,
     Entries, OpenEntries, Redemptions
<1>2. CASE QuietDisk /\ UNCHANGED outcome
  <2>1. \A k \in Keys, a \in Accounts, c \in Credits :
          FileUses(k, a, c)' <=> FileUses(k, a, c)
    BY <1>2 DEF QuietDisk, Quiet, Continues, FileUses
  <2>2. OpenEntries' = OpenEntries
    BY <2>1, EntriesSteady
  <2>3. CASE Redemptions' = Redemptions
    BY <1>1, <1>2, <2>2, <2>3
  <2>4. ASSUME NEW m \in wire,
               m.key \in Keys, m.acct \in Accounts, m.credit \in Credits,
               wallet[m.acct][m.credit] = "available",
               Redemptions' = Redemptions \cup {Entry(m.key, m.acct, m.credit)}
        PROVE  Books!Next
    <3>1. PICK r \in Entries :
            /\ r = Entry(m.key, m.acct, m.credit)
            /\ r.key = m.key /\ r.acct = m.acct /\ r.credit = m.credit
      BY <2>4, EntryFields
    <3>2. Uses(m.key, m.acct, m.credit)
      BY <2>4 DEF Uses, WireUses
    <3>3. /\ outcome[m.key] # "unused"
          /\ \A b \in Accounts, d \in Credits :
               Uses(m.key, b, d) => b = m.acct /\ d = m.credit
      BY <1>0, <2>4, <3>2 DEF KeysTraced
    <3>4. ASSUME outcome[r.key] = "open"
          PROVE  r \in OpenEntries
      <4>1. PICK a \in Accounts : Holds(a, m.key)
        BY <1>0, <2>4, <3>1, <3>4 DEF OpenIsHeld
      <4>2. PICK d \in Credits : FileUses(m.key, a, d)
        BY <1>0, <4>1 DEF Holds, FileUses, TypeOK, AccountStates, Attempts
      <4>3. a = m.acct /\ d = m.credit
        BY <3>3, <4>2 DEF Uses
      <4> QED
        BY <3>1, <4>2, <4>3 DEF OpenEntries
    <3>5. ASSUME NEW s \in Redemptions
          PROVE  s.key # r.key /\ (s.acct = r.acct => s.credit # r.credit)
      <4>1. /\ s \in Entries /\ wallet[s.acct][s.credit] = s.key
            /\ s.acct \in Accounts /\ s.credit \in Credits /\ s.key \in Keys
        BY EntryFields DEF Redemptions
      <4>2. ~(s.acct = r.acct /\ s.credit = r.credit)
        BY <2>4, <3>1, <4>1, KeysAssumption
      <4>3. s.key # r.key
        BY <3>1, <3>3, <4>1, <4>2 DEF Uses
      <4> QED
        BY <4>2, <4>3
    <3>6. Books!Redeem(r)
      BY <1>1, <1>2, <2>2, <2>4, <3>1, <3>3, <3>4, <3>5
    <3> QED
      BY <1>1, <3>6 DEF Books!Next
  <2> QED
    BY <1>0, <2>3, <2>4, RedemptionStep
<1>3. ASSUME NEW e \in Engines, PersistAttempt(e)
      PROVE  Books!Next
  <2>0. PICK a : a = job[e].acct
    OBVIOUS
  <2>1. PICK k \in Keys, p \in Attempts :
          /\ p.key = k /\ a \in Accounts
          /\ disk[a].pending = None
          /\ outcome[k] = "unused"
          /\ outcome' = [outcome EXCEPT ![k] = "open"]
          /\ disk'[a].pending = p
          /\ \A x \in Accounts : x # a => disk'[x] = disk[x]
    BY <1>0, <1>3, <2>0, PersistEffect
  <2>2. p # None /\ p.credit \in Credits
    BY <2>1, NoneAssumption DEF Attempts
  <2>3. PICK r \in Entries : r.key = k /\ r.acct = a /\ r.credit = p.credit
    BY <2>1, <2>2, EntryFields
  <2>4. Redemptions' = Redemptions
    BY <1>3 DEF PersistAttempt, serverVars, Redemptions
  <2>5. ASSUME NEW s \in Entries
        PROVE  s \in OpenEntries' <=> s \in OpenEntries \cup {r}
    <3>1. /\ s \in OpenEntries <=> FileUses(s.key, s.acct, s.credit)
          /\ s \in OpenEntries' <=> FileUses(s.key, s.acct, s.credit)'
      BY DEF OpenEntries, Entries
    <3>2. s = r <=> s.key = k /\ s.acct = a /\ s.credit = p.credit
      BY <2>3, EntryFields
    <3> QED
      BY <2>1, <2>2, <3>1, <3>2, EntryFields DEF FileUses
  <2>6. OpenEntries' = OpenEntries \cup {r}
    BY <2>5 DEF OpenEntries, Entries
  <2>7. \A s \in OpenEntries : s.acct # a
    BY <2>1 DEF OpenEntries, FileUses
  <2>8. Books!Open(r)
    BY <1>1, <2>1, <2>3, <2>4, <2>6, <2>7
  <2> QED
    BY <1>1, <2>8 DEF Books!Next
<1>4. ASSUME NEW e \in Engines, ApplyFailure(e) \/ Complete(e)
      PROVE  Books!Next \/ UNCHANGED Books!vars
  <2>0. PICK a : a = job[e].acct
    OBVIOUS
  <2>1. /\ a \in Accounts /\ disk[a] \in AccountStates
        /\ \A x \in Accounts : x # a => disk'[x] = disk[x]
        /\ disk'[a] = disk[a] \/ disk'[a].pending = None
    BY <1>0, <1>4, <2>0, AtAttempt, CloseEffect DEF ApplyFailure, Complete
  <2>2. Redemptions' = Redemptions
    BY <1>4 DEF ApplyFailure, Complete, serverVars, Redemptions
  <2>3. CASE outcome' = outcome /\ disk'[a].pending = disk[a].pending
    <3>1. \A k \in Keys, x \in Accounts, c \in Credits :
            FileUses(k, x, c)' <=> FileUses(k, x, c)
      BY <2>1, <2>3 DEF FileUses
    <3> QED
      BY <1>1, <2>2, <2>3, <3>1, EntriesSteady
  <2>4. ASSUME NEW v \in {"success", "failed"},
               disk[a].pending # None, disk'[a].pending = None,
               outcome' = [outcome EXCEPT ![disk[a].pending.key] = v]
        PROVE  Books!Next
    <3>1. PICK r \in Entries :
            /\ r \in OpenEntries /\ r.key = disk[a].pending.key
            /\ r.acct = a
            /\ \A s \in OpenEntries : s.acct = a => s = r
      <4>1. disk[a].pending.key \in Keys /\ disk[a].pending.credit \in Credits
        BY <2>1, <2>4 DEF AccountStates, Attempts
      <4> QED
        BY <1>0, <2>1, <2>4, <4>1, OpenEntry, EntryFields
    <3>2. outcome[r.key] = "open"
      BY <1>0, <2>1, <2>4, <3>1, EntryFields DEF OpenIsHeld, Holds
    <3>3. ASSUME NEW s \in Entries
          PROVE  s \in OpenEntries' <=> s \in OpenEntries \ {r}
      <4>1. /\ s \in OpenEntries <=> FileUses(s.key, s.acct, s.credit)
            /\ s \in OpenEntries' <=> FileUses(s.key, s.acct, s.credit)'
        BY DEF OpenEntries, Entries
      <4>2. CASE s.acct = a
        BY <2>4, <3>1, <4>1, <4>2 DEF FileUses
      <4>3. CASE s.acct # a
        BY <2>1, <3>1, <4>1, <4>3, EntryFields DEF FileUses
      <4> QED
        BY <4>2, <4>3
    <3>4. OpenEntries' = OpenEntries \ {r}
      BY <3>3 DEF OpenEntries, Entries
    <3>5. Books!Close(r, v)
      BY <1>1, <2>2, <2>4, <3>1, <3>2, <3>4
    <3> QED
      BY <1>1, <3>5 DEF Books!Next
  <2>5. CASE Complete(e)
    <3> DEFINE s == Succeeded(disk[a], job[e].attempt)
    <3>1. s.pending = None
      BY <2>1 DEF Succeeded, AccountStates
    <3>2. /\ disk[a].pending # None
          /\ disk' = [disk EXCEPT ![a] = s]
          /\ outcome' = [outcome EXCEPT ![disk[a].pending.key] = "success"]
      BY <2>0, <2>5 DEF Complete
    <3> HIDE DEF s
    <3>3. disk'[a].pending = None
      BY <1>0, <2>1, <3>1, <3>2 DEF TypeOK
    <3> QED
      BY <2>4, <3>2, <3>3
  <2>6. CASE ApplyFailure(e)
    <3> DEFINE s == Failed(disk[a], job[e].attempt, job[e].code = "no_credit")
    <3>1. s.pending = None
      BY <2>1 DEF Failed, AccountStates
    <3>2. \/ UNCHANGED <<disk, outcome>>
          \/ /\ disk' = [disk EXCEPT ![a] = s]
             /\ outcome' = IF disk[a].pending = None THEN outcome
                  ELSE [outcome EXCEPT ![disk[a].pending.key] = "failed"]
      BY <2>0, <2>6 DEF ApplyFailure
    <3> HIDE DEF s
    <3>3. UNCHANGED <<disk, outcome>> \/ disk'[a].pending = None
      BY <1>0, <2>1, <3>1, <3>2 DEF TypeOK
    <3> QED
      BY <2>3, <2>4, <3>2, <3>3
  <2> QED
    BY <1>4, <2>5, <2>6
<1> QED
  BY <1>0, <1>2, <1>3, <1>4, StepCases

\* Any number of engines, with late requests or without, implement the ledger
\* of keys: a key stands for one attempt whose verdict is final, and redeems
\* once, after it was opened, the credit it was opened for.
THEOREM ImplementsKeyLedger == Spec => KeyLedgerSpec
<1>1. Init => Books!Init
  <2> SUFFICES ASSUME Init PROVE Books!Init
    OBVIOUS
  <2>1. \A a \in Accounts : disk[a].pending = None
    BY DEF Init, NewAccount
  <2>2. \A k \in Keys, a \in Accounts, c \in Credits : wallet[a][c] # k
    BY KeysAssumption DEF Init
  <2> QED
    BY <2>1, <2>2 DEF Books!Init, Init, FileUses
<1>2. IInv /\ [Next]_vars => [Books!Next]_(Books!vars)
  BY KeyLedgerStep
<1> QED
  BY <1>1, <1>2, Invariance, PTL DEF Spec, KeyLedgerSpec, Books!Spec

-----------------------------------------------------------------------------
(* The ledger of attempts.                                                 *)

Current(a) == IF disk[a].pending = None THEN None ELSE disk[a].pending.key

CurrentOf == [a \in Accounts |-> Current(a)]

Redeemed == {k \in Keys : \E a \in Accounts, c \in Credits : wallet[a][c] = k}

\* The service redeems for a key on the wire, or for none.
LEMMA RedeemedStep ==
  ASSUME TypeOK, [Next]_vars
  PROVE  \/ Redeemed' = Redeemed
         \/ \E m \in wire : /\ Redeemed' = Redeemed \cup {m.key}
                           /\ UNCHANGED <<disk, outcome>>
<1>1. Redeemed = {r.key : r \in Redemptions}
  BY EntryFields DEF Redeemed, Redemptions
<1>2. Redeemed' = {r.key : r \in Redemptions'}
  <2>1. \A r \in Entries :
          r \in Redemptions' <=> wallet'[r.acct][r.credit] = r.key
    BY DEF Redemptions, Entries
  <2>2. Redemptions' \subseteq Entries
    BY DEF Redemptions, Entries
  <2> QED
    BY <2>1, <2>2, EntryFields DEF Redeemed
<1>3. ASSUME NEW m \in wire,
             m.key \in Keys, m.acct \in Accounts, m.credit \in Credits,
             Redemptions' = Redemptions \cup {Entry(m.key, m.acct, m.credit)}
      PROVE  Redeemed' = Redeemed \cup {m.key}
  BY <1>1, <1>2, <1>3, EntryFields
<1> QED
  BY <1>1, <1>2, <1>3, RedemptionStep

LEMMA CurrentSteady ==
  ASSUME \A x \in Accounts : Current(x)' = Current(x)
  PROVE  CurrentOf' = CurrentOf
BY DEF CurrentOf, Current

LEMMA CurrentSet ==
  ASSUME NEW a \in Accounts, NEW v, Current(a)' = v,
         \A x \in Accounts : x # a => Current(x)' = Current(x)
  PROVE  CurrentOf' = [CurrentOf EXCEPT ![a] = v]
BY DEF CurrentOf, Current

LEMMA LedgerStep ==
  ASSUME SoloInv, SoloInv', WireMatchesAttempt, NoForgottenRedemption',
         [Next]_vars
  PROVE  Ledger!Next \/ UNCHANGED Ledger!vars
<1>0. TypeOK /\ TypeOK'
  BY DEF SoloInv, IInv
<1>1. /\ Ledger!vars = <<CurrentOf, outcome, Redeemed>>
      /\ (CurrentOf' = CurrentOf /\ outcome' = outcome /\ Redeemed' = Redeemed)
           => UNCHANGED Ledger!vars
      /\ \A k : \A a \in Accounts :
           Ledger!Open(a, k) <=>
             /\ Current(a) = None /\ outcome[k] = "unused"
             /\ CurrentOf' = [CurrentOf EXCEPT ![a] = k]
             /\ outcome' = [outcome EXCEPT ![k] = "open"]
             /\ Redeemed' = Redeemed
      /\ \A a \in Accounts :
           Ledger!Redeem(a) <=>
             /\ Current(a) # None
             /\ Redeemed' = Redeemed \cup {Current(a)}
             /\ CurrentOf' = CurrentOf /\ outcome' = outcome
      /\ \A a \in Accounts, v \in {"success", "failed"} :
           Ledger!Close(a, v) <=>
             /\ Current(a) # None
             /\ v = "failed" => Current(a) \notin Redeemed
             /\ outcome' = [outcome EXCEPT ![Current(a)] = v]
             /\ CurrentOf' = [CurrentOf EXCEPT ![a] = None]
             /\ Redeemed' = Redeemed
  BY DEF Ledger!vars, Ledger!Open, Ledger!Redeem, Ledger!Close, Current, CurrentOf, Redeemed
<1>2. CASE QuietDisk /\ UNCHANGED outcome
  <2>1. \A a \in Accounts : Current(a)' = Current(a)
    BY <1>2 DEF QuietDisk, Quiet, Continues, Current
  <2>2. CurrentOf' = CurrentOf
    BY <2>1, CurrentSteady
  <2>3. CASE Redeemed' = Redeemed
    BY <1>1, <1>2, <2>2, <2>3
  <2>4. ASSUME NEW m \in wire, Redeemed' = Redeemed \cup {m.key}
        PROVE  Ledger!Next
    <3>1. m.acct \in Accounts /\ Holds(m.acct, m.key) /\ m.key \in Keys
      BY <1>0 DEF TypeOK, Requests, WireMatchesAttempt
    <3>2. Current(m.acct) = m.key /\ m.key # None
      BY <3>1, NoneAssumption DEF Current, Holds
    <3>3. Ledger!Redeem(m.acct)
      BY <1>1, <1>2, <2>2, <2>4, <3>1, <3>2
    <3> QED
      BY <3>1, <3>3 DEF Ledger!Next
  <2> QED
    BY <1>0, <2>3, <2>4, RedeemedStep
<1>3. ASSUME NEW e \in Engines, PersistAttempt(e)
      PROVE  Ledger!Next
  <2>0. PICK a : a = job[e].acct
    OBVIOUS
  <2>1. PICK k \in Keys, p \in Attempts :
          /\ p.key = k /\ a \in Accounts
          /\ disk[a].pending = None
          /\ outcome[k] = "unused"
          /\ outcome' = [outcome EXCEPT ![k] = "open"]
          /\ disk'[a].pending = p
          /\ \A x \in Accounts : x # a => disk'[x] = disk[x]
    BY <1>0, <1>3, <2>0, PersistEffect
  <2>2. Redeemed' = Redeemed
    BY <1>3 DEF PersistAttempt, serverVars, Redeemed
  <2>3. /\ Current(a) = None /\ Current(a)' = k
        /\ \A x \in Accounts : x # a => Current(x)' = Current(x)
    BY <2>1, NoneAssumption DEF Current
  <2>4. CurrentOf' = [CurrentOf EXCEPT ![a] = k]
    BY <2>1, <2>3, CurrentSet
  <2>5. Ledger!Open(a, k)
    BY <1>1, <2>1, <2>2, <2>3, <2>4
  <2> QED
    BY <2>1, <2>5 DEF Ledger!Next
<1>4. ASSUME NEW e \in Engines, ApplyFailure(e) \/ Complete(e)
      PROVE  Ledger!Next \/ UNCHANGED Ledger!vars
  <2>0. PICK a, k : a = job[e].acct /\ k = disk[a].pending.key
    OBVIOUS
  <2>1. /\ a \in Accounts /\ disk[a] \in AccountStates
        /\ pc[e] \in {"settle", "complete"}
    BY <1>0, <1>4, <2>0, AtAttempt DEF ApplyFailure, Complete
  <2>2. disk[a].pending # None /\ k = job[e].attempt.key /\ k \in Keys
    <3>1. Knows(pc[e], job[e])
      BY DEF SoloInv, AllKnow
    <3>2. disk[a].pending # None /\ k = job[e].attempt.key
      BY <2>0, <2>1, <3>1 DEF Knows, KnowsAttempt, Carrying, CarryStages
    <3> QED
      BY <2>0, <2>1, <3>2 DEF AccountStates, Attempts
  <2>3. Redeemed' = Redeemed
    BY <1>4 DEF ApplyFailure, Complete, serverVars, Redeemed
  <2>4. CASE UNCHANGED <<disk, outcome>>
    <3>1. \A x \in Accounts : Current(x)' = Current(x)
      BY <2>4 DEF Current
    <3>2. CurrentOf' = CurrentOf
      BY <3>1, CurrentSteady
    <3> QED
      BY <1>1, <2>3, <2>4, <3>2
  <2>5. ASSUME NEW v \in {"success", "failed"}, NEW s, s.pending = None,
               disk' = [disk EXCEPT ![a] = s],
               outcome' = [outcome EXCEPT ![k] = v]
        PROVE  Ledger!Next
    <3>1. disk'[a] = s /\ \A x \in Accounts : x # a => disk'[x] = disk[x]
      BY <1>0, <2>1, <2>5 DEF TypeOK
    <3>2. /\ Current(a) = k /\ Current(a)' = None /\ k # None
          /\ \A x \in Accounts : x # a => Current(x)' = Current(x)
      BY <2>0, <2>2, <2>5, <3>1, NoneAssumption DEF Current
    <3>3. CurrentOf' = [CurrentOf EXCEPT ![a] = None]
      BY <2>1, <3>2, CurrentSet
    <3>4. v = "failed" => k \notin Redeemed
      <4>1. outcome'[k] = v
        BY <1>0, <2>2, <2>5 DEF TypeOK
      <4>2. \A x \in Accounts, c \in Credits :
              wallet'[x][c] = k => outcome'[k] \in {"open", "success"}
        BY <2>2 DEF NoForgottenRedemption
      <4> QED
        BY <2>3, <4>1, <4>2 DEF Redeemed
    <3>5. Ledger!Close(a, v)
      BY <1>1, <2>1, <2>3, <2>5, <3>2, <3>3, <3>4
    <3> QED
      BY <2>1, <3>5 DEF Ledger!Next
  <2>6. CASE Complete(e)
    <3> DEFINE s == Succeeded(disk[a], job[e].attempt)
    <3>1. s.pending = None
      BY <2>1 DEF Succeeded, AccountStates
    <3>2. /\ disk' = [disk EXCEPT ![a] = s]
          /\ outcome' = [outcome EXCEPT ![k] = "success"]
      BY <2>0, <2>2, <2>6 DEF Complete
    <3> QED
      BY <2>5, <3>1, <3>2
  <2>7. CASE ApplyFailure(e) /\ ~UNCHANGED <<disk, outcome>>
    <3> DEFINE s == Failed(disk[a], job[e].attempt, job[e].code = "no_credit")
    <3>1. s.pending = None
      BY <2>1 DEF Failed, AccountStates
    <3>2. /\ disk' = [disk EXCEPT ![a] = s]
          /\ outcome' = [outcome EXCEPT ![k] = "failed"]
      BY <2>0, <2>2, <2>7 DEF ApplyFailure
    <3> QED
      BY <2>5, <3>1, <3>2
  <2> QED
    BY <1>4, <2>4, <2>6, <2>7
<1> QED
  BY <1>0, <1>2, <1>3, <1>4, StepCases

\* The engine implements the ledger: an attempt is open before anything is
\* redeemed for it and is never written off once something was.
THEOREM ImplementsLedger == Solo => (Spec => LedgerSpec)
<1> SUFFICES ASSUME Solo PROVE Spec => LedgerSpec
  OBVIOUS
<1>1. Init => Ledger!Init
  <2> SUFFICES ASSUME Init PROVE Ledger!Init
    OBVIOUS
  <2>1. \A a \in Accounts : disk[a].pending = None
    BY DEF Init, NewAccount
  <2>2. \A k \in Keys, a \in Accounts, c \in Credits : wallet[a][c] # k
    BY KeysAssumption DEF Init
  <2> QED
    BY <2>1, <2>2 DEF Ledger!Init, Init
<1>2. SoloInv /\ SoloInv' /\ WireMatchesAttempt /\ NoForgottenRedemption'
        /\ [Next]_vars => [Ledger!Next]_(Ledger!vars)
  BY LedgerStep
<1>3. Spec => []SoloInv
  BY SoloInvariance DEF Solo
<1>4. Spec => []NoForgottenRedemption
  BY NoForgottenRedemptionHolds
<1> QED
  BY <1>1, <1>2, <1>3, <1>4, WireMatchesAttemptHolds, PTL
  DEF Spec, LedgerSpec, Ledger!Spec

-----------------------------------------------------------------------------
(* The lease of the state directory.                                       *)

Active == {e \in Engines : life[e] = "running"}

Scanning == {r \in Engines \X Engines : r[1] = r[2] /\ pc[r[1]] # "idle"}

LEMMA LeaseHeld ==
  ASSUME OneEngine, NEW e \in Engines
  PROVE  /\ Active = IF life[e] = "running" THEN {e} ELSE {}
         /\ Active' = IF life'[e] = "running" THEN {e} ELSE {}
         /\ Scanning = IF pc[e] # "idle" THEN {<<e, e>>} ELSE {}
         /\ Scanning' = IF pc'[e] # "idle" THEN {<<e, e>>} ELSE {}
<1>1. Engines = {e}
  BY DEF OneEngine
<1>2. /\ Active = IF life[e] = "running" THEN {e} ELSE {}
      /\ Active' = IF life'[e] = "running" THEN {e} ELSE {}
  BY <1>1 DEF Active
<1>3. \A r : r \in Engines \X Engines <=> r = <<e, e>>
  BY <1>1
<1>4. Scanning = IF pc[e] # "idle" THEN {<<e, e>>} ELSE {}
  BY <1>3 DEF Scanning
<1>5. Scanning' = IF pc'[e] # "idle" THEN {<<e, e>>} ELSE {}
  BY <1>3 DEF Scanning
<1> QED
  BY <1>2, <1>4, <1>5

\* A step of a scan moves that scan, and no engine's life.
LEMMA ScanStepMoves ==
  ASSUME TypeOK, NEW e \in Engines, ScanStep(e)
  PROVE  /\ pc[e] # "idle" /\ life' = life
         /\ UNCHANGED pc \/ \E q : Goto(e, q)
<1>1. pc[e] # "idle" /\ life' = life
  BY DEF ScanStep, Reconcile, LoadAccount, FinishScan, UsageReply, CreditsReply,
     RecheckReply, PersistAttempt, PersistRefused, SendConsume, SendFails,
     GiveUp, MarkAmbiguous, ApplyFailure, VerifyCredits, VerifyUsage, Complete,
     CompleteFails, ResetQuota, RecordClear
<1>2. CASE Reconcile(e) \/ LoadAccount(e) \/ FinishScan(e)
           \/ CreditsReply(e) \/ RecheckReply(e)
  BY <1>2 DEF Reconcile, LoadAccount, FinishScan, CreditsReply, RecheckReply,
     Leave, TransientFailure
<1>3. CASE PersistAttempt(e) \/ PersistRefused(e) \/ SendConsume(e)
           \/ SendFails(e) \/ GiveUp(e) \/ MarkAmbiguous(e) \/ ApplyFailure(e)
  BY <1>3 DEF PersistAttempt, PersistRefused, SendConsume, SendFails, GiveUp,
     MarkAmbiguous, ApplyFailure, Leave
<1>4. CASE VerifyCredits(e) \/ VerifyUsage(e) \/ Complete(e)
           \/ CompleteFails(e) \/ ResetQuota(e) \/ RecordClear(e)
  BY <1>4 DEF VerifyCredits, VerifyUsage, Complete, CompleteFails, ResetQuota,
     RecordClear, Leave, Bump
<1>5. CASE UsageReply(e)
  <2>1. job[e].plan \in {"skip", "clear", "wait", "resolve", "fresh"}
    BY <1>5 DEF UsageReply, TypeOK, EngineTypeOK, Jobs
  <2> QED
    BY <1>5, <2>1 DEF UsageReply, Leave
<1> QED
  BY <1>1, <1>2, <1>3, <1>4, <1>5 DEF ScanStep

LEMMA LeaseStep ==
  ASSUME OneEngine, TypeOK, [Next]_vars
  PROVE  Lease!Next \/ UNCHANGED Lease!vars
<1>1. /\ (Active' = Active /\ Scanning' = Scanning) => UNCHANGED Lease!vars
      /\ \A i \in Engines :
           /\ Active = {} /\ Scanning = {} /\ Active' = {i}
                /\ Scanning' = Scanning => Lease!Next
           /\ i \in Active /\ Active' = Active \ {i}
                /\ Scanning' = Scanning => Lease!Next
           /\ i \in Active /\ Scanning = {} /\ Scanning' = {<<i, i>>}
                /\ Active' = Active => Lease!Next
      /\ Scanning # {} /\ Scanning' = {} /\ Active' = Active => Lease!Next
      /\ Active' = {} /\ Scanning' = {} => Lease!Next
  BY DEF Lease!vars, Lease!Next, Lease!Activate, Lease!Stop, Lease!Begin,
     Lease!End, Lease!Crash, Active, Scanning
<1>2. CASE UNCHANGED <<life, pc>>
  BY <1>1, <1>2 DEF Active, Scanning
<1>3. ASSUME NEW e \in Engines, life' = life, pc[e] # "idle",
             \E q : Goto(e, q)
      PROVE  Lease!Next \/ UNCHANGED Lease!vars
  <2>1. Active' = Active /\ Scanning = {<<e, e>>}
    BY <1>3, LeaseHeld
  <2>2. Scanning' = {} \/ Scanning' = Scanning
    BY <1>3, <2>1, LeaseHeld
  <2> QED
    BY <1>1, <2>1, <2>2
<1>4. ASSUME NEW e \in Engines, Discover(e)
      PROVE  Lease!Next
  <2>1. /\ life[e] = "running" /\ life' = life
        /\ pc[e] = "idle" /\ pc'[e] = "reconcile"
    BY <1>4 DEF Discover, Goto, TypeOK, EngineTypeOK
  <2>2. e \in Active /\ Active' = Active /\ Scanning = {}
        /\ Scanning' = {<<e, e>>}
    BY <2>1, LeaseHeld
  <2> QED
    BY <1>1, <2>2
<1>5. ASSUME NEW e \in Engines, LifeStep(e)
      PROVE  Lease!Next \/ UNCHANGED Lease!vars
  <2>1. CASE RequestStop(e)
    <3>1. /\ life[e] = "running" /\ life'[e] = "stopping" /\ pc' = pc
      BY <2>1 DEF RequestStop, TypeOK, EngineTypeOK
    <3>2. e \in Active /\ Active' = Active \ {e} /\ Scanning' = Scanning
      BY <3>1, LeaseHeld
    <3> QED
      BY <1>1, <3>2
  <2>2. CASE Cancel(e)
    <3>1. life[e] = "stopping" /\ life'[e] = "cancelled" /\ pc' = pc
      BY <2>2 DEF Cancel, TypeOK, EngineTypeOK
    <3>2. Active' = Active /\ Scanning' = Scanning
      BY <3>1, LeaseHeld
    <3> QED
      BY <1>1, <3>2
  <2>3. CASE Crash(e)
    <3>1. life'[e] = "down" /\ pc'[e] = "idle"
      BY <2>3 DEF Crash, Goto, TypeOK, EngineTypeOK
    <3>2. Active' = {} /\ Scanning' = {}
      BY <3>1, LeaseHeld
    <3> QED
      BY <1>1, <3>2
  <2>4. CASE Restart(e)
    <3>1. /\ life[e] # "running" /\ life'[e] = "running"
          /\ pc[e] = "idle" /\ pc' = pc
      BY <2>4 DEF Restart, TypeOK, EngineTypeOK
    <3>2. /\ Active = {} /\ Scanning = {}
          /\ Active' = {e} /\ Scanning' = Scanning
      BY <3>1, LeaseHeld
    <3> QED
      BY <1>1, <3>2
  <2> QED
    BY <1>5, <2>1, <2>2, <2>3, <2>4 DEF LifeStep
<1>6. ASSUME NEW m \in wire, Execute(m)
      PROVE  Lease!Next \/ UNCHANGED Lease!vars
  <2>1. m.eng \in Engines /\ life' = life
    BY <1>6 DEF Execute, TypeOK, Requests
  <2>2. UNCHANGED pc \/ (pc[m.eng] = "await" /\ \E q : Goto(m.eng, q))
    BY <1>6 DEF Execute
  <2> QED
    BY <1>2, <1>3, <2>1, <2>2
<1>7. CASE ClockStep \/ UNCHANGED vars
  <2>1. UNCHANGED <<life, pc>>
    BY <1>7 DEF ClockStep, MgmtCooldownElapses, CooldownElapses, BackoffElapses,
       ClearFallsDue, vars, engineVars
  <2> QED
    BY <1>2, <2>1
<1>8. ASSUME NEW a \in Accounts,
             \/ \E p \in BOOLEAN : SetParticipation(a, p)
             \/ HostChanges(a)
             \/ \E c \in Credits : CreditGranted(a, c) \/ CreditLeaves(a, c)
             \/ WindowRolls(a)
      PROVE  UNCHANGED Lease!vars
  <2>1. UNCHANGED <<life, pc>>
    BY <1>8 DEF SetParticipation, HostChanges, CreditGranted, CreditLeaves,
       WindowRolls, engineVars
  <2> QED
    BY <1>1, <2>1 DEF Active, Scanning
<1>9. ASSUME NEW e \in Engines, ScanStep(e)
      PROVE  Lease!Next \/ UNCHANGED Lease!vars
  BY <1>2, <1>3, <1>9, ScanStepMoves
<1> QED
  BY <1>4, <1>5, <1>6, <1>7, <1>8, <1>9 DEF Next, WorldStep

\* An engine that is alone on its state directory scans only while it is active
\* and is activated again only when its scan has ended.
THEOREM ImplementsLease == OneEngine => (Spec => LeaseSpec)
<1> SUFFICES ASSUME OneEngine PROVE Spec => LeaseSpec
  OBVIOUS
<1>1. Init => Lease!Init
  <2> SUFFICES ASSUME Init PROVE Lease!Init
    OBVIOUS
  <2>1. /\ {e \in Engines : life[e] = "running"} = Engines
        /\ \A e \in Engines : pc[e] = "idle"
    BY DEF Init
  <2>2. Engines = {} \/ \E e \in Engines : Engines = {e}
    BY DEF OneEngine
  <2>3. {r \in Engines \X Engines : r[1] = r[2] /\ pc[r[1]] # "idle"} = {}
    BY <2>1
  <2> QED
    BY <2>1, <2>2, <2>3 DEF Lease!Init
<1>2. TypeOK /\ [Next]_vars => [Lease!Next]_(Lease!vars)
  BY LeaseStep
<1> QED
  BY <1>1, <1>2, TypeCorrect, PTL DEF Spec, LeaseSpec, Lease!Spec
==============================================================================
