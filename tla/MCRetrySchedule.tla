--------------------------- MODULE MCRetrySchedule ---------------------------
(* Configurations for RetrySchedule: the least and the greatest backoff, and *)
(* documents that are rejected or replaced by a default.                     *)
EXTENDS RetryScheduleProps

Enabled == <<<<"enabled", TRUE>>, <<"keyEnv", "set">>>>

MCDocuments ==
  {<<>>, Enabled \o <<<<"enabled", FALSE>>>>} \cup
  {Append(Enabled, pair) : pair \in
     {<<"backoff", 60>>, <<"backoff", Week>>, <<"backoff", Week + 1>>,
      <<"backoff", 59>>, <<"cooldown", Malformed>>, <<"threshold", 79>>,
      <<"threshold", 101>>, <<"stateDir", "">>, <<"url", "relative">>}}

\* The documented defaults, with a key from the environment.
MCDefaults == {Enabled}

MCText ==
  {"", "loopback", "default", "cache", "relative", "set", "secret"}

MCEnv == [v \in MCText |-> IF v = "set" THEN "secret" ELSE ""]
==============================================================================
