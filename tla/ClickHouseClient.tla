-------------------------- MODULE ClickHouseClient --------------------------
(***************************************************************************)
(* ClickHouseClient::insert_raw_event, api/src/clickhouse_client.cpp: one  *)
(* row is posted to a list of ClickHouse urls, starting from the one that  *)
(* worked last, until one takes it. The call is made by the one thread of  *)
(* the API server, an attempt at a time; what an attempt does to the       *)
(* database and what the client hears of it are two different things.      *)
(* HttpIngest makes the calls and holds the assumptions on the constants.  *)
(*                                                                         *)
(* A definition named X_Y is X with the defect Y: no action uses it; it is *)
(* there to show that the properties tell X from it.                       *)
(***************************************************************************)
EXTENDS Integers, FiniteSets

CONSTANTS
  Rows,       \* rows that may be inserted
  NumUrls,    \* urls_.size()
  Outcomes,   \* what may happen to an attempt, a subset of AllOutcomes
  MaxCopies   \* bound: copies of a row in raw_events are counted up to here

AllOutcomes ==
  { "ok",         \* stored, curl exits with 0
    "refused",    \* not stored, a network error of the retryable list
    "unheard",    \* stored, but the reply is lost: the same network errors
    "rejected",   \* not stored, an error that is not in the list
    "halfway",    \* stored in raw_events, a view failed: an error not in the list
    "hangs",      \* not stored, and curl, which is given no time limit, never ends
    "swallowed" } \* stored, and curl never ends

VARIABLES
  current,    \* current_: index of the url that worked last
  call,       \* the call under way
  stored      \* [Rows -> Nat]: copies of each row in raw_events

chVars == <<current, call, stored>>

StoresRow(o) == o \in {"ok", "unheard", "halfway", "swallowed"}
IsRetryable(o) == o \in {"refused", "unheard"}
NeverReturns(o) == o \in {"hangs", "swallowed"}

\* "hung": curl was started and never ends. No action leaves this phase.
Phases == {"idle", "trying", "true", "false", "hung"}
NoCall == [phase |-> "idle", row |-> {}, attempt |-> 0, tried |-> {}, heard |-> "ok"]

Init ==
  /\ current = 0
  /\ call = NoCall
  /\ stored = [r \in Rows |-> 0]

\* The index of the url that the next attempt is made at.
Index_Stuck == current
Index == (current + call.attempt) % NumUrls

\* What the loop makes of an outcome: return true, go on, return false, or block
\* in fgets for ever.
MoreUrls_OneShort == call.attempt + 2 < NumUrls
MoreUrls == call.attempt + 1 < NumUrls

Verdict(o) ==
  CASE o = "ok" -> "true"
    [] IsRetryable(o) /\ MoreUrls -> "trying"
    [] NeverReturns(o) -> "hung"
    [] OTHER -> "false"

Begin(r) ==
  /\ call.phase = "idle"
  /\ call' = [phase |-> "trying", row |-> {r}, attempt |-> 0, tried |-> {}, heard |-> "ok"]
  /\ UNCHANGED <<current, stored>>

\* One iteration of the loop over urls_. "tried" and "heard" record the urls of
\* the call and the last outcome.
AttemptWith(o) ==
  /\ call.phase = "trying"
  /\ stored' = [r \in Rows |->
       IF {r} = call.row /\ StoresRow(o) /\ stored[r] < MaxCopies
       THEN stored[r] + 1 ELSE stored[r]]
  /\ current' = IF o = "ok" THEN Index ELSE current
  /\ call' = [call EXCEPT
       !.attempt = @ + 1, !.tried = @ \cup {Index}, !.heard = o, !.phase = Verdict(o)]

Attempt == \E o \in Outcomes : AttemptWith(o)

\* The caller takes the result.
Return ==
  /\ call.phase \in {"true", "false"}
  /\ call' = NoCall
  /\ UNCHANGED <<current, stored>>

-----------------------------------------------------------------------------

TypeOK ==
  /\ current \in 0 .. NumUrls - 1
  /\ call \in [phase : Phases, row : {{}} \cup {{r} : r \in Rows},
               attempt : 0 .. NumUrls, tried : SUBSET (0 .. NumUrls - 1),
               heard : AllOutcomes]
  /\ stored \in [Rows -> 0 .. MaxCopies]

\* The loop visits the urls in a ring from current_: no url is tried twice in a
\* call, whichever url worked last, and it returns false only after an error that
\* is not a network error, or after every url was tried.
FailsOverInRing ==
  /\ Cardinality(call.tried) = call.attempt
  /\ call.phase = "false" /\ IsRetryable(call.heard) => call.tried = 0 .. NumUrls - 1
=============================================================================
