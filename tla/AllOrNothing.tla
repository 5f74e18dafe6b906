---------------------------- MODULE AllOrNothing ----------------------------
(***************************************************************************)
(* What collecting one partition promises its caller: responses arrive     *)
(* one at a time, in any order; the caller is handed either the frames of  *)
(* ALL of them, each counted once, or an error and nothing.                *)
(***************************************************************************)
VARIABLES
  owed,       \* the responses the partition owes, fixed from the start
  collected,  \* responses that are in the columns
  outcome     \* "pending", then "ok" or "err" for good

aonVars == <<owed, collected, outcome>>

Init ==
  /\ collected = {}
  /\ outcome = "pending"

Deliver(r) ==
  /\ outcome = "pending"
  /\ r \in owed \ collected
  /\ collected' = collected \cup {r}
  /\ UNCHANGED <<owed, outcome>>

Commit ==
  /\ outcome = "pending"
  /\ collected = owed
  /\ outcome' = "ok"
  /\ UNCHANGED <<owed, collected>>

\* An error may strike at any time; what was collected so far is dropped.
Abort ==
  /\ outcome = "pending"
  /\ outcome' = "err"
  /\ UNCHANGED <<owed, collected>>

Next == (\E r \in owed : Deliver(r)) \/ Commit \/ Abort

Spec == Init /\ [][Next]_aonVars
=============================================================================
