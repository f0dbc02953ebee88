------------------------------- MODULE MCDisks -------------------------------
(***************************************************************************)
(* Drives and Fcb with two drives, small images and a short directory.     *)
(***************************************************************************)
EXTENDS Fcb, TLC

MCLead == [d \in Dir |-> [n \in Name |->
    CASE n = "abs" -> "x"
      [] n = "sos0" -> IF d = "home" THEN "y" ELSE NoImage
      [] OTHER -> NoImage]]
MCDefault == [u \in Unit |-> IF u = "A" THEN "sos0" ELSE "sos1"]

Sec(a, b) == (0 :> a) @@ (1 :> b)
MCSector == {Sec("free", "free"), Sec("F", "free"), Sec("G", "end")}
MCZero == Sec("free", "free")

(* A program transfers records or lists directories: which one is run is   *)
(* chosen at the start.                                                    *)
VARIABLE program

MCInit ==
    /\ Init
    /\ program \in {"transfers", "lists"}
    /\ host["y"] = IF program = "lists" THEN <<Sec("F", "free")>> ELSE <<>>
    /\ program = "transfers" => low = 0 /\ host["x"] = <<Zero>>

Transfers ==
    \E u \in Unit, at \in Records :
        Read(u, at, 1) \/ \E s \in {Zero, Sec("F", "free")} : Write(u, at, <<s>>)

(* Once two drives have used one image nothing is promised of it.          *)
MCNext ==
    /\ \/ program = "transfers" /\ ~shared /\ Other(Monitor \/ Transfers)
       \/ program = "transfers" /\ Restart
       \/ program = "lists" /\ Other(Monitor /\ UNCHANGED disk["B"])
       \/ program = "lists" /\ FcbCall
    /\ UNCHANGED program

MCSpec == MCInit /\ [][MCNext]_<<vars, program>> /\ WF_vars(Scan)

-----------------------------------------------------------------------------
(* Every #FCB comes to an end, on any disk and on none.                    *)
SearchEnds == pc = "scan" ~> pc = "idle"
=============================================================================
