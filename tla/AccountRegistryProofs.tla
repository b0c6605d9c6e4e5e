------------------------ MODULE AccountRegistryProofs ------------------------
(***************************************************************************)
(* What holds of discovery and reconciliation for any accounts, credential *)
(* files and default participation, whatever the host does meanwhile.      *)
(***************************************************************************)
EXTENDS AccountRegistry, TLAPS

-----------------------------------------------------------------------------
(* Types.                                                                  *)

\* A usable credential names an account.
LEMMA UsableType ==
  ASSUME TypeOK, NEW f \in Files, Usable(f)
  PROVE  host[f] \in Credentials /\ host[f].account \in Accounts
                                 /\ host[f].disabled \in BOOLEAN
BY DEF TypeOK, Usable, Credentials

LEMMA CandidateType ==
  ASSUME TypeOK, NEW f \in Files, Usable(f)
  PROVE  /\ Candidate(f) \in Candidates
         /\ Candidate(f).account = host[f].account
         /\ Candidate(f).file = f
         /\ Candidate(f).disabled = (off[f] \/ host[f].disabled)
<1>1. host[f].account \in Accounts /\ host[f].disabled \in BOOLEAN
  BY UsableType
<1>2. off[f] \in BOOLEAN
  BY DEF TypeOK
<1> QED
  BY <1>1, <1>2 DEF Candidate, Candidates

\* ReconcileAccounts writes an entry or leaves none.
LEMMA ReconciledType ==
  ASSUME TypeOK, NEW a \in Accounts
  PROVE  Reconciled(a) \in Entries \cup {None}
<1>1. registry[a] \in Entries \cup {None} /\ Found(a) \in BOOLEAN
  BY DEF TypeOK, Found
<1> QED
  BY <1>1, DefaultAssumption DEF Reconciled, Entries

LEMMA InitType == Init => TypeOK
BY DefaultAssumption DEF Init, TypeOK, scan

LEMMA HostChangesType ==
  ASSUME TypeOK, NEW f \in Files, HostChanges(f)
  PROVE  TypeOK'
BY DEF TypeOK, HostChanges, scan

LEMMA ListType ==
  ASSUME TypeOK, List
  PROVE  TypeOK'
<1>1. /\ todo' \subseteq Files /\ steady' \subseteq Files /\ scanning'
      /\ byAccountID' \in [Accounts -> Candidates \cup {None}]
      /\ reads' \subseteq Candidates
  BY DEF List, TypeOK
<1>2. off' \in [Files -> BOOLEAN]
  <2>1. \A f \in Files : (host[f] # None /\ host[f].disabled) \in BOOLEAN
    BY DEF TypeOK, Credentials
  <2> QED
    BY <2>1 DEF List
<1> QED
  BY <1>1, <1>2 DEF List, TypeOK

LEMMA ReadType ==
  ASSUME TypeOK, NEW f \in Files, Read(f)
  PROVE  TypeOK'
<1>1. Candidate(f) \in Candidates
  BY CandidateType DEF Read
<1>2. byAccountID' \in [Accounts -> Candidates \cup {None}]
  BY <1>1 DEF Read, Keep, TypeOK
<1> QED
  BY <1>1, <1>2 DEF Read, TypeOK

LEMMA SkipType ==
  ASSUME TypeOK, NEW f \in Files, Skip(f)
  PROVE  TypeOK'
BY DEF TypeOK, Skip

LEMMA EndScanType ==
  ASSUME TypeOK, EndScan, registry' \in [Accounts -> Entries \cup {None}]
  PROVE  TypeOK'
BY DEF TypeOK, EndScan

LEMMA PutType ==
  ASSUME TypeOK, NEW refs \in SUBSET Accounts, NEW p \in BOOLEAN, Put(refs, p)
  PROVE  TypeOK'
<1>1. registry' \in [Accounts -> Entries \cup {None}]
  BY DEF Put, TypeOK, Entries
<1>2. choice' \in [Accounts -> BOOLEAN]
  BY DEF Put, TypeOK
<1> QED
  BY <1>1, <1>2 DEF Put, TypeOK, scan

LEMMA NextType ==
  ASSUME TypeOK, [Next]_vars
  PROVE  TypeOK'
<1>1. CASE List
  BY <1>1, ListType
<1>2. CASE Reconcile
  <2>1. registry' \in [Accounts -> Entries \cup {None}]
    BY <1>2, ReconciledType DEF Reconcile
  <2> QED
    BY <1>2, <2>1, EndScanType DEF Reconcile
<1>3. CASE ReconcileFails
  BY <1>3, EndScanType DEF ReconcileFails, TypeOK
<1>4. CASE \E f \in Files : HostChanges(f) \/ Read(f) \/ Skip(f)
  BY <1>4, HostChangesType, ReadType, SkipType
<1>5. CASE \E refs \in SUBSET Accounts, p \in BOOLEAN : Put(refs, p)
  BY <1>5, PutType
<1>6. CASE UNCHANGED vars
  BY <1>6 DEF vars, scan, TypeOK
<1> QED
  BY <1>1, <1>2, <1>3, <1>4, <1>5, <1>6 DEF Next

\* Every variable keeps its type; between two scans nothing is left of the
\* last one.
THEOREM TypeCorrect == Spec => []TypeOK
<1>1. Init => TypeOK
  BY InitType
<1>2. TypeOK /\ [Next]_vars => TypeOK'
  BY NextType
<1> QED
  BY <1>1, <1>2, PTL DEF Spec

-----------------------------------------------------------------------------
(* Which file wins.                                                        *)

\* The files of account a among those of S, and the ones one of which may win.
Mine(S, a) == {c \in S : c.account = a}
Enabled(S) == {c \in S : ~c.disabled}
Best(S) == IF Enabled(S) # {} THEN Enabled(S) ELSE S

\* Candidate w wins among S.
Wins(w, S) == w \in Best(S) /\ \A d \in Best(S) : w.file <= d.file

LEMMA BestWinsRestated ==
  BestWins <=> \A a \in Accounts :
    IF Mine(reads, a) = {} THEN byAccountID[a] = None
    ELSE Wins(byAccountID[a], Mine(reads, a))
BY DEF BestWins, Mine, Enabled, Best, Wins

\* The loop body of Discover: one more file, and the winner among them all.
LEMMA PreferWins ==
  ASSUME NEW S \in SUBSET Candidates, NEW w \in S, Wins(w, S),
         NEW c \in Candidates, NEW T, T = S \cup {c}
  PROVE  /\ Prefer(c, w) => Wins(c, T)
         /\ ~Prefer(c, w) => Wins(w, T)
<1>1. /\ w.file \in Nat /\ c.file \in Nat
      /\ w.disabled \in BOOLEAN /\ c.disabled \in BOOLEAN
      /\ \A d \in S : d.file \in Nat /\ d.disabled \in BOOLEAN
  BY FilesAssumption DEF Candidates
<1>2. CASE c.disabled /\ ~w.disabled
  <2>1. Best(T) = Best(S)
    BY <1>2 DEF Best, Enabled
  <2> QED
    BY <1>2, <2>1 DEF Wins, Prefer
<1>3. CASE ~c.disabled /\ w.disabled
  <2>1. Enabled(S) = {}
    BY <1>3 DEF Wins, Best, Enabled
  <2>2. Best(T) = {c}
    BY <1>3, <2>1 DEF Best, Enabled
  <2>3. Prefer(c, w)
    BY <1>1, <1>3 DEF Prefer
  <2>4. Wins(c, T)
    <3>1. \A d \in Best(T) : c.file <= d.file
      BY <1>1, <2>2
    <3>2. c \in Best(T)
      BY <2>2
    <3> QED
      BY <3>1, <3>2 DEF Wins
  <2> QED
    BY <2>3, <2>4
<1>4. CASE c.disabled = w.disabled
  <2>1. Best(T) = Best(S) \cup {c}
    BY <1>1, <1>4 DEF Wins, Best, Enabled
  <2>2. \A d \in Best(S) : d.file \in Nat
    BY <1>1 DEF Best, Enabled
  <2>3. Prefer(c, w) <=> c.file < w.file
    BY <1>4 DEF Prefer
  <2>4. CASE c.file < w.file
    <3>1. \A d \in Best(S) : c.file <= d.file
      BY <1>1, <2>2, <2>4 DEF Wins
    <3>2. \A d \in Best(T) : c.file <= d.file
      BY <1>1, <2>1, <3>1
    <3>3. c \in Best(T)
      BY <2>1
    <3>4. Wins(c, T)
      BY <3>2, <3>3 DEF Wins
    <3> QED
      BY <2>3, <2>4, <3>4
  <2>5. CASE ~(c.file < w.file)
    <3>1. w \in Best(S) /\ \A d \in Best(S) : w.file <= d.file
      BY DEF Wins
    <3>2. \A d \in Best(T) : w.file <= d.file
      BY <1>1, <2>1, <2>5, <3>1
    <3>3. w \in Best(T)
      BY <2>1, <3>1
    <3>4. Wins(w, T)
      BY <3>2, <3>3 DEF Wins
    <3> QED
      BY <2>3, <2>5, <3>4
  <2> QED
    BY <2>4, <2>5
<1> QED
  BY <1>1, <1>2, <1>3, <1>4

LEMMA ReadBest ==
  ASSUME TypeOK, BestWins, NEW f \in Files, Read(f)
  PROVE  BestWins'
<1> DEFINE c == Candidate(f)
<1>1. c \in Candidates /\ c.account \in Accounts
  BY CandidateType, UsableType DEF Read
<1>2. reads' = reads \cup {c}
  BY DEF Read
<1>3. SUFFICES ASSUME NEW a \in Accounts
               PROVE  IF Mine(reads', a) = {} THEN byAccountID'[a] = None
                      ELSE Wins(byAccountID'[a], Mine(reads', a))
  BY DEF BestWins, Mine, Enabled, Best, Wins
<1>4. IF Mine(reads, a) = {} THEN byAccountID[a] = None
      ELSE Wins(byAccountID[a], Mine(reads, a))
  BY BestWinsRestated
<1>5. CASE a # c.account
  <2>1. Mine(reads', a) = Mine(reads, a)
    BY <1>2, <1>5 DEF Mine
  <2>2. byAccountID'[a] = byAccountID[a]
    BY <1>1, <1>5 DEF Read, Keep, TypeOK
  <2> QED
    BY <1>4, <2>1, <2>2
<1>6. CASE a = c.account
  <2>1. Mine(reads', a) = Mine(reads, a) \cup {c}
    BY <1>2, <1>6 DEF Mine
  <2>2. byAccountID'[a] = IF byAccountID[a] = None \/ Prefer(c, byAccountID[a])
                          THEN c ELSE byAccountID[a]
    BY <1>1, <1>6 DEF Read, Keep, TypeOK
  <2>3. CASE Mine(reads, a) = {}
    <3>1. Best({c}) = {c} /\ c.file \in Nat
      BY <1>1, FilesAssumption DEF Best, Enabled, Candidates
    <3> QED
      BY <1>1, <1>4, <2>1, <2>2, <2>3, <3>1 DEF Wins
  <2>4. CASE Mine(reads, a) # {}
    <3>1. Wins(byAccountID[a], Mine(reads, a))
      BY <1>4, <2>4
    <3>2. Mine(reads, a) \in SUBSET Candidates
      BY DEF Mine, TypeOK
    <3>3. byAccountID[a] \in Mine(reads, a)
      BY <3>1 DEF Wins, Best, Enabled
    <3>4. byAccountID[a] # None
      BY <3>2, <3>3, NoneAssumption
    <3>5. /\ Prefer(c, byAccountID[a]) => Wins(c, Mine(reads, a) \cup {c})
          /\ ~Prefer(c, byAccountID[a]) =>
               Wins(byAccountID[a], Mine(reads, a) \cup {c})
      BY <1>1, <3>1, <3>2, <3>3, PreferWins
    <3>6. CASE Prefer(c, byAccountID[a])
      <4>1. byAccountID'[a] = c
        BY <2>2, <3>6
      <4> QED
        BY <2>1, <3>5, <3>6, <4>1
    <3>7. CASE ~Prefer(c, byAccountID[a])
      <4>1. byAccountID'[a] = byAccountID[a]
        BY <2>2, <3>4, <3>7
      <4> QED
        BY <2>1, <3>5, <3>7, <4>1
    <3> QED
      BY <3>6, <3>7
  <2> QED
    BY <2>3, <2>4
<1> QED
  BY <1>5, <1>6

LEMMA NextBest ==
  ASSUME TypeOK, BestWins, [Next]_vars
  PROVE  BestWins'
<1>1. CASE List \/ EndScan
  BY <1>1 DEF List, EndScan, BestWins
<1>2. CASE \E f \in Files : Read(f)
  BY <1>2, ReadBest
<1>3. CASE UNCHANGED <<reads, byAccountID>>
  BY <1>3 DEF BestWins
<1> QED
  BY <1>1, <1>2, <1>3
  DEF Next, HostChanges, Reconcile, ReconcileFails, Skip, Put, scan, vars

\* BestWins for any files, accounts and order of the list.
THEOREM BestWinsHolds == Spec => []BestWins
<1>1. Init => BestWins
  BY DEF Init, BestWins
<1>2. TypeOK /\ BestWins /\ [Next]_vars => BestWins'
  BY NextBest
<1> QED
  BY <1>1, <1>2, TypeCorrect, PTL DEF Spec

-----------------------------------------------------------------------------
(* Files that stay as they are.                                            *)

\* What is known of the files that kept their content since the list was
\* read: they are on it as they are, and what was read of them is what they
\* contain. SteadySeen is about the file kept for their account, and is not
\* inductive without this.
SteadyRead ==
  /\ \A f \in steady : host[f] # None /\ (off[f] <=> host[f].disabled)
  /\ \A f \in steady \ todo : Usable(f) /\ Candidate(f) \in reads
  /\ \A c \in reads : /\ c.file \notin todo
                      /\ c.file \in steady => c = Candidate(c.file)

LEMMA SteadyReadSuffices ==
  ASSUME TypeOK, BestWins, SteadyRead
  PROVE  SteadySeen
<1> SUFFICES ASSUME NEW f \in steady \ todo
             PROVE  /\ Usable(f)
                    /\ byAccountID[host[f].account] # None
                    /\ byAccountID[host[f].account].disabled => host[f].disabled
                    /\ byAccountID[host[f].account].disabled = host[f].disabled
                         => byAccountID[host[f].account].file <= f
                    /\ \A a \in Accounts :
                         byAccountID[a] # None /\ byAccountID[a].file = f =>
                           /\ host[f].account = a
                           /\ byAccountID[a].disabled = host[f].disabled
  BY DEF SteadySeen
<1>1. f \in Files /\ Usable(f) /\ Candidate(f) \in reads
  BY DEF SteadyRead, TypeOK
<1>2. host[f].account \in Accounts /\ host[f].disabled \in BOOLEAN
  BY <1>1, UsableType
<1>3. /\ Candidate(f).account = host[f].account
      /\ Candidate(f).disabled = host[f].disabled
      /\ Candidate(f).file = f
  <2>1. off[f] <=> host[f].disabled
    BY DEF SteadyRead
  <2>2. off[f] \in BOOLEAN
    BY <1>1 DEF TypeOK
  <2> QED
    BY <1>1, <1>2, <2>1, <2>2, CandidateType
<1>4. \A a \in Accounts :
        IF Mine(reads, a) = {} THEN byAccountID[a] = None
        ELSE Wins(byAccountID[a], Mine(reads, a))
  BY BestWinsRestated
<1>5. \A a \in Accounts : byAccountID[a] # None =>
        byAccountID[a] \in reads /\ byAccountID[a].account = a
  BY <1>4 DEF Wins, Best, Enabled, Mine
<1>6. Candidate(f) \in Mine(reads, host[f].account)
  BY <1>1, <1>3 DEF Mine
<1>7. Wins(byAccountID[host[f].account], Mine(reads, host[f].account))
  BY <1>2, <1>4, <1>6
<1>8. byAccountID[host[f].account] \in Mine(reads, host[f].account)
  BY <1>7 DEF Wins, Best, Enabled
<1>9. byAccountID[host[f].account] # None
  BY <1>8, NoneAssumption DEF Mine, TypeOK
<1>10. byAccountID[host[f].account].disabled => host[f].disabled
  BY <1>3, <1>6, <1>7 DEF Wins, Best, Enabled
<1>11. ASSUME byAccountID[host[f].account].disabled = host[f].disabled
       PROVE  byAccountID[host[f].account].file <= f
  <2>1. Candidate(f) \in Best(Mine(reads, host[f].account))
    BY <1>3, <1>6, <1>7, <1>11 DEF Wins, Best, Enabled
  <2> QED
    BY <1>3, <1>7, <2>1 DEF Wins
<1>12. ASSUME NEW a \in Accounts, byAccountID[a] # None, byAccountID[a].file = f
       PROVE  /\ host[f].account = a
              /\ byAccountID[a].disabled = host[f].disabled
  <2>1. byAccountID[a] = Candidate(f)
    BY <1>5, <1>12 DEF SteadyRead
  <2> QED
    BY <1>3, <1>5, <1>12, <2>1
<1> QED
  BY <1>1, <1>9, <1>10, <1>11, <1>12

LEMMA NextSteady ==
  ASSUME TypeOK, SteadyRead, [Next]_vars
  PROVE  SteadyRead'
<1>1. CASE List
  <2>1. \A f \in Files : host[f] # None => host[f] \in Credentials
    BY DEF TypeOK
  <2>2. \A f \in steady' : f \in Files /\ f \in todo' /\ host'[f] # None
    BY <1>1 DEF List, TypeOK
  <2>3. \A f \in steady' : off'[f] <=> host'[f].disabled
    BY <1>1, <2>2 DEF List
  <2>4. reads' = {}
    BY <1>1 DEF List
  <2> QED
    BY <2>2, <2>3, <2>4 DEF SteadyRead
<1>2. CASE EndScan
  BY <1>2 DEF EndScan, SteadyRead
<1>3. ASSUME NEW f \in Files, HostChanges(f)
      PROVE  SteadyRead'
  <2>1. /\ \A g \in Files : g # f => host'[g] = host[g]
        /\ steady' = steady \ {f} /\ UNCHANGED <<scanning, off, todo, byAccountID, reads>>
        /\ steady \subseteq Files
    BY <1>3 DEF HostChanges, TypeOK, scan
  <2>2. \A g \in steady' : Usable(g)' = Usable(g) /\ Candidate(g)' = Candidate(g)
    BY <2>1 DEF Usable, Candidate
  <2> QED
    BY <2>1, <2>2 DEF SteadyRead
<1>4. ASSUME NEW f \in Files, Read(f)
      PROVE  SteadyRead'
  <2>1. /\ f \in todo /\ Usable(f) /\ todo' = todo \ {f}
        /\ reads' = reads \cup {Candidate(f)}
        /\ UNCHANGED <<host, off, steady>>
    BY <1>4 DEF Read
  <2>2. \A g \in steady : Usable(g)' = Usable(g) /\ Candidate(g)' = Candidate(g)
    BY <2>1 DEF Usable, Candidate
  <2>3. Candidate(f).file = f
    BY DEF Candidate
  <2>4. \A g \in steady' \ todo' : Usable(g)' /\ Candidate(g)' \in reads'
    BY <2>1, <2>2 DEF SteadyRead
  <2>5. \A c \in reads' : /\ c.file \notin todo'
                          /\ c.file \in steady' => c = Candidate(c.file)'
    <3>1. ASSUME NEW c \in reads
          PROVE  /\ c.file \notin todo'
                 /\ c.file \in steady' => c = Candidate(c.file)'
      BY <2>1, <2>2 DEF SteadyRead
    <3>2. ASSUME NEW c \in reads'
          PROVE  /\ c.file \notin todo'
                 /\ c.file \in steady' => c = Candidate(c.file)'
      <4>1. CASE c \in reads
        BY <3>1, <4>1
      <4>2. CASE c = Candidate(f)
        <5>1. c.file = f
          BY <2>3, <4>2
        <5>2. c.file \in steady' => Candidate(c.file)' = Candidate(f)
          BY <2>1, <2>2, <5>1
        <5> QED
          BY <2>1, <4>2, <5>1, <5>2
      <4> QED
        BY <2>1, <4>1, <4>2
    <3> QED
      BY <3>2
  <2> QED
    BY <2>1, <2>4, <2>5 DEF SteadyRead
<1>5. ASSUME NEW f \in Files, Skip(f)
      PROVE  SteadyRead'
  <2>1. /\ todo' = todo \ {f} /\ steady' = steady \ {f}
        /\ UNCHANGED <<host, off, reads>>
    BY <1>5 DEF Skip
  <2>2. \A g \in steady' : Usable(g)' = Usable(g) /\ Candidate(g)' = Candidate(g)
    BY <2>1 DEF Usable, Candidate
  <2> QED
    BY <2>1, <2>2 DEF SteadyRead
<1>6. CASE UNCHANGED <<host, off, todo, reads, steady>>
  BY <1>6 DEF SteadyRead, Usable, Candidate
<1> QED
  BY <1>1, <1>2, <1>3, <1>4, <1>5, <1>6
  DEF Next, Reconcile, ReconcileFails, Put, scan, vars

\* SteadySeen for any files, accounts and changes of the host: the account of a
\* file that did not change and could be read is found, no such file of it would
\* be preferred to the one kept, and an unchanged file is registered as it is.
THEOREM SteadySeenHolds == Spec => []SteadySeen
<1>1. Init => SteadyRead
  BY DEF Init, SteadyRead
<1>2. TypeOK /\ SteadyRead /\ [Next]_vars => SteadyRead'
  BY NextSteady
<1>3. TypeOK /\ BestWins /\ SteadyRead => SteadySeen
  BY SteadyReadSuffices
<1> QED
  BY <1>1, <1>2, <1>3, TypeCorrect, BestWinsHolds, PTL DEF Spec

-----------------------------------------------------------------------------
(* What the user chose.                                                    *)

\* Of an account that was never recorded nothing was chosen: the page can only
\* switch accounts that are in the file. ChoiceKept needs this for the step
\* that records an account.
Unchosen ==
  \A a \in Accounts : registry[a] = None => choice[a] = DefaultParticipation

LEMMA NextChoice ==
  ASSUME TypeOK, ChoiceKept, Unchosen, [Next]_vars
  PROVE  ChoiceKept' /\ Unchosen'
<1>1. CASE Reconcile
  <2>1. choice' = choice /\ \A a \in Accounts : registry'[a] = Reconciled(a)
    BY <1>1 DEF Reconcile, EndScan
  <2>2. ASSUME NEW a \in Accounts, registry[a] # None
        PROVE  /\ Reconciled(a) # None
               /\ Reconciled(a).participating = registry[a].participating
    <3>1. registry[a] \in Entries /\ Found(a) \in BOOLEAN
      BY <2>2 DEF TypeOK, Found
    <3>2. Reconciled(a) = [registry[a] EXCEPT !.present = Found(a)]
      BY <2>2 DEF Reconciled
    <3> QED
      BY <3>1, <3>2, NoneAssumption DEF Entries
  <2>3. ASSUME NEW a \in Accounts, registry[a] = None, Reconciled(a) # None
        PROVE  Reconciled(a).participating = DefaultParticipation
    BY <2>3 DEF Reconciled
  <2> QED
    BY <2>1, <2>2, <2>3 DEF ChoiceKept, Unchosen
<1>2. ASSUME NEW refs \in SUBSET Accounts, NEW p \in BOOLEAN, Put(refs, p)
      PROVE  ChoiceKept' /\ Unchosen'
  <2> SUFFICES ASSUME NEW a \in Accounts
               PROVE  /\ registry'[a] # None
                           => registry'[a].participating = choice'[a]
                      /\ registry'[a] = None => choice'[a] = DefaultParticipation
    BY DEF ChoiceKept, Unchosen
  <2> DEFINE known == a \in refs /\ registry[a] # None /\ registry[a].present
  <2>1. CASE known
    <3>1. /\ registry'[a] = [registry[a] EXCEPT !.participating = p]
          /\ choice'[a] = p
      BY <1>2, <2>1 DEF Put
    <3>2. registry[a] \in Entries
      BY <2>1 DEF TypeOK
    <3> QED
      BY <3>1, <3>2, NoneAssumption DEF Entries
  <2>2. CASE ~known
    <3>1. registry'[a] = registry[a] /\ choice'[a] = choice[a]
      BY <1>2, <2>2 DEF Put
    <3> QED
      BY <3>1 DEF ChoiceKept, Unchosen
  <2> QED
    BY <2>1, <2>2
<1>3. CASE UNCHANGED <<registry, choice>>
  BY <1>3 DEF ChoiceKept, Unchosen
<1> QED
  BY <1>1, <1>2, <1>3
  DEF Next, List, HostChanges, Read, Skip, ReconcileFails, EndScan, vars

\* ChoiceKept for any files, accounts and default participation.
THEOREM ChoiceKeptHolds == Spec => []ChoiceKept
<1>1. Init => ChoiceKept /\ Unchosen
  BY DEF Init, ChoiceKept, Unchosen
<1>2. TypeOK /\ ChoiceKept /\ Unchosen /\ [Next]_vars => ChoiceKept' /\ Unchosen'
  BY NextChoice
<1> QED
  BY <1>1, <1>2, TypeCorrect, PTL DEF Spec
==============================================================================
