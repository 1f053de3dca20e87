------------------------------ MODULE TaskLedger ------------------------------
(***************************************************************************)
(* What the demo server promises about a task: once accepted it waits, is  *)
(* taken off the queue once and never put back, and may then be done.      *)
(***************************************************************************)
CONSTANT Task

VARIABLE place    \* where each task is

Places == {"absent", "waiting", "taken", "done"}

LedgerInit == place = [t \in Task |-> "absent"]

Move(t, from, to) == place[t] = from /\ place' = [place EXCEPT ![t] = to]

LedgerNext ==
    \E t \in Task :
        \/ Move(t, "absent", "waiting")
        \/ Move(t, "waiting", "taken")
        \/ Move(t, "taken", "done")

LedgerSpec == LedgerInit /\ [][LedgerNext]_place
=============================================================================
