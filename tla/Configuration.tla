---------------------------- MODULE Configuration ----------------------------
(***************************************************************************)
(* internal/config/config.go: what Parse makes of the plugin's YAML. A     *)
(* document is the sequence of its <<key, value>> pairs. Keys are those    *)
(* normalizeKey returns, so that a_b and a-b are one key.                  *)
(***************************************************************************)
EXTENDS Integers, Sequences

CONSTANTS
  Text,       \* the strings that occur
  Malformed,  \* a value of another type than its field's
  Rejected    \* the outcome of a document that Parse rejects

\* management-url is the class of URL it belongs to; "" is an unset string.
Defaults ==
  [enabled |-> FALSE, url |-> "loopback", key |-> "", keyEnv |-> "default",
   interval |-> 300, cooldown |-> 1800, backoff |-> 300, stateDir |-> "cache",
   defaultParticipation |-> FALSE, threshold |-> 95]

Week == 7 * 24 * 60 * 60

\* What a field holds once it is decoded, and how Validate leaves it.
FieldTypes ==
  [enabled |-> BOOLEAN, url |-> Text, key |-> Text, keyEnv |-> Text,
   interval |-> Int, cooldown |-> Int, backoff |-> Int, stateDir |-> Text,
   defaultParticipation |-> BOOLEAN, threshold |-> Int]

\* A value is one of its field's type, or Malformed.
WellTyped(document) ==
  \A i \in DOMAIN document :
    \/ document[i][2] = Malformed
    \/ document[i][1] \in DOMAIN FieldTypes
         => document[i][2] \in FieldTypes[document[i][1]]

ASSUME TextAssumption == {"", "loopback", "default", "cache"} \subseteq Text

\* A field given twice is an error, not the last one's victory.
Decodes(document) ==
  /\ \A i, j \in DOMAIN document : document[i][1] = document[j][1] => i = j
  /\ \A i \in DOMAIN document : document[i][2] # Malformed

Given(document, field) ==
  LET said == {i \in DOMAIN document : document[i][1] = field} IN
  IF said = {} THEN Defaults[field]
  ELSE document[CHOOSE i \in said : TRUE][2]

\* env[v]: the environment variable v, "" when it is not set.
WithKey(c, env) ==
  IF c.key = "" /\ c.keyEnv # "" THEN [c EXCEPT !.key = env[c.keyEnv]] ELSE c

UsableURLs == {"loopback", "remote"}

\* A variant of Valid that has no upper bounds.
ValidBelow(c) ==
  c.url \in UsableURLs /\ c.interval >= 60 /\ c.cooldown >= 60 /\ c.backoff >= 60

Valid(c) ==
  /\ c.url \in UsableURLs
  /\ c.interval \in 60 .. Week
  /\ c.cooldown \in 60 .. Week
  /\ c.backoff \in 60 .. Week
  /\ c.threshold <= 100
  /\ c.stateDir # ""

\* Validate: a threshold that is too low is no error.
Validated(c) ==
  IF Valid(c) THEN [c EXCEPT !.threshold = IF @ < 80 THEN Defaults.threshold ELSE @]
  ELSE Rejected

Parse(document, env) ==
  IF Decodes(document)
  THEN Validated(WithKey([k \in DOMAIN Defaults |-> Given(document, k)], env))
  ELSE Rejected

\* SafeView.Complete; a valid URL is not empty.
Complete(c) == c.key # ""

\* What an engine needs in order to scan.
Operable(c) == c.enabled /\ Complete(c)

Configs ==
  [enabled : BOOLEAN, url : UsableURLs, key : Text, keyEnv : Text,
   interval : 60 .. Week, cooldown : 60 .. Week, backoff : 60 .. Week,
   stateDir : Text, defaultParticipation : BOOLEAN, threshold : 80 .. 100]
==============================================================================
