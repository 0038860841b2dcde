---------------------------- MODULE MCReminders -----------------------------
(***************************************************************************)
(* Reminders on three rows: one that only opens, one that only closes and  *)
(* one that does both, with windows that overlap across midnight.          *)
(***************************************************************************)
EXTENDS Reminders, TLC

CONSTANTS e1, e2, e3

MCEvents == {e1, e2, e3}
MCOpens == (e1 :> 1 @@ e2 :> Never @@ e3 :> 2)
MCCloses == (e1 :> Never @@ e2 :> 3 @@ e3 :> 4)
=============================================================================
