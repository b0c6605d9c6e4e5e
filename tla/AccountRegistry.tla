--------------------------- MODULE AccountRegistry ---------------------------
(***************************************************************************)
(* Which accounts exist and who takes part: the first half of a scan       *)
(* (Discover of internal/account/discovery.go over the host's credential   *)
(* files, then ReconcileAccounts of internal/state/participation.go) while *)
(* the host changes the files and the user switches participation on the   *)
(* web page. What the scan then does to each account is ResetEngine.       *)
(***************************************************************************)
EXTENDS Naturals, FiniteSets

CONSTANTS
  Files,                 \* auth indexes of credential files, in their order
  Accounts,              \* account IDs; an account's reference is its hash
  DefaultParticipation,  \* the default-participation setting
  None

ASSUME FilesAssumption == Files \subseteq Nat
ASSUME DefaultAssumption == DefaultParticipation \in BOOLEAN

VARIABLES
  host,         \* host[f]: the credential file f, None when there is none
  scanning,     \* a scan is between ListAuthFiles and ReconcileAccounts
  off,          \* off[f]: entry f of the list was disabled or unavailable
  todo,         \* entries of the list that Discover has not looked at
  byAccountID,  \* the candidate kept for each account
  registry,     \* State.Accounts in the file: who is known, present, taking part
  reads,        \* history: the candidates this scan has read
  steady,       \* history: files of the list that kept their content since
                \* and, when they were looked at, could be read
  choice        \* history: what the user chose last, or the default

scan == <<scanning, off, todo, byAccountID, reads>>
vars == <<host, scan, registry, steady, choice>>

\* account: None when Discover finds no use for the content: it is no JSON, of
\* another type, without a token or without an account ID.
Credentials ==
  {c \in [account : Accounts \cup {None}, disabled : BOOLEAN] :
     c.account = None => ~c.disabled}

Candidates == [account : Accounts, file : Files, disabled : BOOLEAN]

Entries == [present : BOOLEAN, participating : BOOLEAN]

ASSUME NoneAssumption == None \notin Accounts \cup Credentials \cup Candidates \cup Entries

\* A variant of Usable that does not look for an account ID.
UsableAnonymous(f) == host[f] # None

Usable(f) == host[f] # None /\ host[f].account # None

Init ==
  /\ host \in [Files -> Credentials \cup {None}]
  /\ scanning = FALSE /\ todo = {}
  /\ off = [f \in Files |-> FALSE]
  /\ byAccountID = [a \in Accounts |-> None]
  /\ registry = [a \in Accounts |-> None]
  /\ reads = {} /\ steady = {}
  /\ choice = [a \in Accounts |-> DefaultParticipation]

\* The host adds, rewrites, disables or removes a file. A file it does not list
\* as a Codex file on disk (isCodexFile) is as good as none.
HostChanges(f) ==
  /\ \E c \in Credentials \cup {None} : host' = [host EXCEPT ![f] = c]
  /\ steady' = steady \ {f}
  /\ UNCHANGED <<scan, registry, choice>>

-----------------------------------------------------------------------------
(* Discover                                                                *)

\* ListAuthFiles; when it fails the scan ends and nothing changes.
List ==
  /\ ~scanning /\ scanning' = TRUE
  /\ todo' = {f \in Files : host[f] # None}
  /\ off' = [f \in Files |-> host[f] # None /\ host[f].disabled]
  /\ byAccountID' = [a \in Accounts |-> None]
  /\ reads' = {} /\ steady' = todo'
  /\ UNCHANGED <<host, registry, choice>>

\* Disabled is what the list said, or what the file says by now.
Candidate(f) ==
  [account |-> host[f].account, file |-> f,
   disabled |-> off[f] \/ host[f].disabled]

\* A variant of Prefer that looks at the index only.
PreferIndex(c, d) == c.file < d.file

Prefer(c, d) ==
  IF c.disabled # d.disabled THEN ~c.disabled ELSE c.file < d.file

\* A variant of Keep in which the last file wins.
KeepLast(c) == byAccountID' = [byAccountID EXCEPT ![c.account] = c]

Keep(c) ==
  byAccountID' = [byAccountID EXCEPT
    ![c.account] = IF @ = None \/ Prefer(c, @) THEN c ELSE @]

\* GetAuth returned a credential Discover can use. The order of the list is the
\* host's, so f may be any entry that is left.
Read(f) ==
  /\ f \in todo /\ Usable(f)
  /\ todo' = todo \ {f}
  /\ reads' = reads \cup {Candidate(f)}
  /\ Keep(Candidate(f))
  /\ UNCHANGED <<host, scanning, off, registry, steady, choice>>

\* GetAuth failed, or returned nothing Discover can use.
Skip(f) ==
  /\ f \in todo
  /\ todo' = todo \ {f}
  /\ steady' = steady \ {f}
  /\ UNCHANGED <<host, scanning, off, byAccountID, reads, registry, choice>>

-----------------------------------------------------------------------------
(* ReconcileAccounts and SetParticipation: each one Update of the file.    *)

Found(a) == byAccountID[a] # None

\* A variant of Reconciled that begins anew for an account that was away.
ReconciledAnew(a) ==
  IF Found(a)
  THEN IF registry[a] = None \/ ~registry[a].present
       THEN [present |-> TRUE, participating |-> DefaultParticipation]
       ELSE registry[a]
  ELSE IF registry[a] = None THEN None
       ELSE [registry[a] EXCEPT !.present = FALSE]

\* A variant of Reconciled that does not mark who is gone.
ReconciledFound(a) ==
  IF Found(a) /\ registry[a] = None
  THEN [present |-> TRUE, participating |-> DefaultParticipation]
  ELSE IF Found(a) THEN [registry[a] EXCEPT !.present = TRUE] ELSE registry[a]

Reconciled(a) ==
  IF registry[a] # None THEN [registry[a] EXCEPT !.present = Found(a)]
  ELSE IF Found(a)
       THEN [present |-> TRUE, participating |-> DefaultParticipation]
       ELSE None

EndScan ==
  /\ scanning /\ todo = {}
  /\ scanning' = FALSE /\ reads' = {} /\ steady' = {}
  /\ off' = [f \in Files |-> FALSE]
  /\ byAccountID' = [a \in Accounts |-> None]
  /\ UNCHANGED <<host, todo, choice>>

Reconcile == EndScan /\ registry' = [a \in Accounts |-> Reconciled(a)]

\* The Update fails, and with it the scan.
ReconcileFails == EndScan /\ UNCHANGED registry

\* PUT /accounts/participation, from a page that may be out of date: the other
\* references of the request are answered as unknown.
Put(refs, participating) ==
  LET updated == {a \in refs : registry[a] # None /\ registry[a].present} IN
  /\ registry' = [a \in Accounts |->
       IF a \in updated THEN [registry[a] EXCEPT !.participating = participating]
       ELSE registry[a]]
  /\ choice' = [a \in Accounts |->
       IF a \in updated THEN participating ELSE choice[a]]
  /\ UNCHANGED <<host, scan, steady>>

Next ==
  \/ List \/ Reconcile \/ ReconcileFails
  \/ \E f \in Files : HostChanges(f) \/ Read(f) \/ Skip(f)
  \/ \E refs \in SUBSET Accounts, p \in BOOLEAN : Put(refs, p)

Spec == Init /\ [][Next]_vars

\* The engine scans at intervals and a scan goes on; neither GetAuth nor Update
\* fails every time it is called.
FairSpec ==
  /\ Spec
  /\ WF_vars(List) /\ WF_vars(Reconcile \/ ReconcileFails) /\ SF_vars(Reconcile)
  /\ \A f \in Files : WF_vars(Read(f) \/ Skip(f)) /\ SF_vars(Read(f))

-----------------------------------------------------------------------------
TypeOK ==
  /\ host \in [Files -> Credentials \cup {None}]
  /\ scanning \in BOOLEAN
  /\ off \in [Files -> BOOLEAN]
  /\ todo \subseteq Files /\ steady \subseteq Files
  /\ byAccountID \in [Accounts -> Candidates \cup {None}]
  /\ registry \in [Accounts -> Entries \cup {None}]
  /\ reads \subseteq Candidates
  /\ choice \in [Accounts -> BOOLEAN]
  /\ ~scanning => todo = {} /\ reads = {} /\ steady = {}
                  /\ \A a \in Accounts : byAccountID[a] = None

\* What is kept for an account is the best of the files read for it so far: an
\* enabled one if there is any, and of those the one with the least index. So
\* the outcome does not depend on the order of the host's list (discovery.go,
\* lines 87 to 90 and 164 to 169), and no other account's file is taken.
BestWins ==
  \A a \in Accounts :
    LET mine == {c \in reads : c.account = a}
        best == IF \E c \in mine : ~c.disabled
                THEN {c \in mine : ~c.disabled} ELSE mine
    IN IF mine = {} THEN byAccountID[a] = None
       ELSE /\ byAccountID[a] \in best
            /\ \A c \in best : byAccountID[a].file <= c.file

\* Although the list and the files are read one after the other while the host
\* changes them, the account of a file that did not change and could be read is
\* found, by that file or by one that prefer puts before it (discovery.go, lines
\* 87 to 90 and 164 to 169); and what is said of a file that did not change is
\* what it contains. The file kept may be one that was of that account only when
\* it was read.
SteadySeen ==
  \A f \in steady \ todo :
    /\ Usable(f)
    /\ LET c == byAccountID[host[f].account] IN
         /\ c # None
         /\ c.disabled => host[f].disabled
         /\ c.disabled = host[f].disabled => c.file <= f
    /\ \A a \in Accounts :
         byAccountID[a] # None /\ byAccountID[a].file = f =>
           /\ host[f].account = a
           /\ byAccountID[a].disabled = host[f].disabled

\* Whatever scans do, an account that leaves and comes back included, it takes
\* part exactly if the user last said so, or by default when the user never did
\* (participation.go, lines 29 to 37 and 68).
ChoiceKept ==
  \A a \in Accounts :
    registry[a] # None => registry[a].participating = choice[a]

Present(a) == registry[a] # None /\ registry[a].present

ReadsSucceed == <>[][\A f \in Files : ~(Usable(f) /\ Skip(f))]_vars

\* The registry follows the host: an account whose file stays in place, and can
\* be read from some time on, gets and stays present, although Updates fail now
\* and then; one without a file is gone and stays gone.
RegistryConverges ==
  \A a \in Accounts :
    /\ ReadsSucceed /\ (\E f \in Files : <>[](Usable(f) /\ host[f].account = a))
         => <>[]Present(a)
    /\ <>[](\A f \in Files : Usable(f) => host[f].account # a)
         => <>[]~Present(a)
==============================================================================
