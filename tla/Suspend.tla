------------------------------- MODULE Suspend -------------------------------
(***************************************************************************)
(* Console with job control: SIGTSTP may come between any two steps (the   *)
(* terminal output itself is a critical section).  The handler scr_stopr   *)
(* parks the cursor on the last line of the terminal, stops, and redraws   *)
(* the screen when the process is continued.                               *)
(***************************************************************************)
EXTENDS Console

Stop ==
    /\ scr' = Redraw(Pmove(scr, PH - 1, 0))
    /\ UNCHANGED <<width, phase, todo>>

SuspendNext == Next \/ Stop
SuspendSpec == Init /\ [][SuspendNext]_vars

(* "redraw screen to make sure be same as virtual one": after a stop and   *)
(* continue the terminal shows the virtual screen.  The belief about the   *)
(* cursor is not reset with the clear, so a row that starts where the      *)
(* cursor was parked is drawn at the home position instead.                *)
RedrawRestores == [][Stop => Stale(scr') = {}]_vars
=============================================================================
