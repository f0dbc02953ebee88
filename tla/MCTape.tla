------------------------------- MODULE MCTape -------------------------------
(***************************************************************************)
(* The tapes with small names and sizes: "long" is a host name that is cut *)
(* to the S-OS name of "a", and "locked" cannot be opened.                 *)
(***************************************************************************)
EXTENDS TapeDir

MCUtos == [u \in Unix |-> CASE u \in {"a", "long"} -> "A"
                            [] u = "b" -> "B" [] OTHER -> "L"]
MCStou == [s \in Sos |-> CASE s = "A" -> "a" [] s = "B" -> "b"
                           [] OTHER -> "locked"]

(* The program opens files and lists them, by #RDI and by #DIR, and leaves *)
(* its memory alone.                                                       *)
SharedNext ==
    \/ \E n \in Sos : FileCall(n, "bin")
    \/ Transfer
    \/ \E t \in Deck : Rdi(t)
    \/ Tdir \/ TdirNoDirectory
    \/ Restart

SharedSpec == Init /\ [][SharedNext]_vars
=============================================================================
