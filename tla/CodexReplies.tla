---------------------------- MODULE CodexReplies -----------------------------
(***************************************************************************)
(* internal/codex/client.go: what Credits makes of a reply of the service. *)
(* The order by expiry, in which the code returns the list, is left to     *)
(* those who choose from it.                                               *)
(***************************************************************************)
EXTENDS Integers, FiniteSets

CONSTANTS Credits, Unreadable

\* Unreadable is none of the things it stands in for: an ID, a count, a list.
ASSUME UnreadableAssumption ==
  /\ Unreadable \notin Credits /\ Unreadable \notin Nat
  /\ \A list \in SUBSET Credits : list # Unreadable

\* id = Unreadable: none is given. expiry: "bad" when there is none or it is no
\* time. limits: the reset type is codex_rate_limits.
Rows ==
  [id : Credits \cup {Unreadable},
   status : {"available", "redeeming", "redeemed", "unknown"},
   expiry : {"future", "past", "bad"}, limits : BOOLEAN]

IsAvailable(row) == row.status = "available"

\* The errors met while looking at one row, a repeated ID excepted.
Faulty(row) ==
  \/ row.status = "unknown"
  \/ IsAvailable(row) /\ (row.id = Unreadable \/ row.expiry # "future")

\* The rows the loop counts as details.
Details(rows) == {i \in DOMAIN rows : IsAvailable(rows[i])}

\* The loop over the rows ends without an error.
Readable(rows) ==
  /\ \A i \in DOMAIN rows : ~Faulty(rows[i])
  /\ \A i, j \in Details(rows) : rows[i].id = rows[j].id => i = j

Available(rows) == {rows[i].id : i \in {j \in Details(rows) : rows[j].limits}}

\* A variant of CreditList that believes a list that is cut short.
CreditListUncounted(rows, count) ==
  IF Readable(rows) THEN Available(rows) ELSE Unreadable

\* A reply without a count, of another shape or with another HTTP status has
\* count Unreadable.
CreditList(rows, count) ==
  IF Readable(rows) /\ count = Cardinality(Details(rows)) THEN Available(rows)
  ELSE Unreadable
==============================================================================
