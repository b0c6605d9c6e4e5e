------------------------- MODULE RetryScheduleProps --------------------------
(* What the waits and the fail-closed replies of RetrySchedule must achieve. *)
EXTENDS RetrySchedule

TypeOK ==
  /\ cfg \in Configs
  /\ wallet \in [Credits -> {"available", "redeemed"}]
  /\ attempt \in [credit : Credits, count : 0 .. MaxLevel] \cup {None}
  /\ clear \in [wait : 0 .. HalfHour, attempts : 0 .. MaxLevel] \cup {None}
  /\ backoff \in Nat /\ cooling \in Nat /\ mgmt \in 0 .. TenMinutes
  /\ stage \in {"idle", "clear", "credits", "consume"}
  /\ stage = "clear" => clear # None
  /\ stage = "consume" => attempt # None
  /\ failures \in 0 .. MaxLevel /\ due \in 0 .. SixHours /\ exact \in BOOLEAN

Requests == stage \in {"clear", "credits"}

\* However scans are triggered and the configuration changes meanwhile, nothing
\* is asked again before the wait that was last recorded is over, which is at
\* least: for the n-th failure in a row of an attempt, or of a local clear,
\* base * 2^(n-1) minutes or the maximum; for a query that failed outside of an
\* attempt the base, however many failed before (engine.go, line 526: less than
\* the exponential backoff that README.md, line 40, has for temporary errors);
\* for a refused attempt half an hour. Nothing is said of a wait whose Update
\* failed, nor of one that a Duration cannot hold.
Spaced == Requests /\ exact => due = 0

\* "temporary errors: initial exponential backoff" (README.md, line 40), up to
\* the parameter named maximum (engine.go, line 665): a wait that has grown never
\* falls back to none. The same without the proviso of a Duration.
BackoffNeverLost == Requests => due = 0

\* nextAllowedAt of the web page (handler.go, lines 367 to 379).
NextAllowed ==
  Most(cooling, Most(backoff, IF clear = None THEN 0 ELSE clear.wait))

\* The page never names a moment before which an attempt is made after all.
NextAllowedHonest == stage \in {"credits", "consume"} => NextAllowed = 0

\* A list that is cut short, repeats a row or is damaged is no list: an attempt
\* is taken for redeemed only when its credit is not available any more.
NoFalseSuccess ==
  [][attempt # None /\ clear = None /\ clear' # None
       => wallet'[attempt.credit] # "available"]_vars
==============================================================================
