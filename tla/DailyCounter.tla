---------------------------- MODULE DailyCounter ----------------------------
(***************************************************************************)
(* What the daily counter promises (safety/daily_count.py): a number that  *)
(* grows by one at a time during a day and starts again at zero at         *)
(* midnight, UTC.  There is no file here and no moment between the reading *)
(* and the writing of it.                                                  *)
(***************************************************************************)
EXTENDS Naturals

VARIABLES today, value

Init == today = 0 /\ value = 0

Increment == value' = value + 1 /\ UNCHANGED today

Midnight == today' = today + 1 /\ value' = 0

Next == Increment \/ Midnight

Spec == Init /\ [][Next]_<<today, value>>
=============================================================================
