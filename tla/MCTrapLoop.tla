------------------------------ MODULE MCTrapLoop ------------------------------
(***************************************************************************)
(* TrapLoop with every program of up to two calls and a subroutine:        *)
(* addresses 0 to 20 hold the program, 24 its subroutine, 40 to 63 the     *)
(* entries, 66 what #HOT jumps to, and the stack is below 84.              *)
(***************************************************************************)
EXTENDS TrapLoop, TLC

MCAt == (PRINT :> 40) @@ (MPRNT :> 43) @@ (PAUSE :> 46) @@ (MON :> 49) @@
        (BOOT :> 52) @@ (GETPC :> 55) @@ (HOT :> 58) @@ (COLD :> 61)

To(n) == <<CALL, MCAt[n], 0>>
Text == {<<0>>, <<RET, 0>>, <<HALT, PRINT, 0>>}

(* The last address of a #PAUSE is out of the memory.  A hook in #USR is   *)
(* the program itself; HALT RET is an invalid trap.                        *)
Item ==
    {To(n) : n \in {PRINT, MON, GETPC, COLD}}
    \cup {To(MPRNT) \o t : t \in Text}
    \cup {To(PAUSE) \o a : a \in {<<0, 0>>, <<52, 0>>, <<0, 1>>}}
    \cup {<<CALL, 24, 0>>, <<LDHL, 64, 0>>, <<HALT, PRINT>>, <<HALT, RET>>, <<>>}

Sub == {<<RET>>, To(MPRNT) \o <<RET, 0, RET>>, To(PAUSE) \o <<24, 0, RET>>}

MCImage ==
    {[a \in Addr |->
        LET main == i \o j \o <<RET>>
            hot == To(BOOT)
        IN CASE a < Len(main) -> main[a + 1]
             [] a \in 24 .. 23 + Len(sub) -> sub[a - 23]
             [] a \in 66 .. 68 -> hot[a - 65]
             [] OTHER -> 0] : i \in Item, j \in Item, sub \in Sub}
=============================================================================
