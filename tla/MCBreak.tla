------------------------------- MODULE MCBreak -------------------------------
(***************************************************************************)
(* BreakKey on a host that may refuse the byte of scr_intr (TIOCSTI), now  *)
(* and then or always, with the fairness of a program that goes on asking. *)
(***************************************************************************)
EXTENDS BreakKey

VARIABLE refused    \* history: the byte of an interrupt was not taken

MCInit == Init /\ refused = FALSE

MCNext ==
    \/ \E p \in Pushes : InterruptBy(p) /\ refused' = (refused \/ ~p)
    \/ /\ \/ \E k \in Key : Type(k)
          \/ \E f \in Caller : Call(f)
          \/ Inside
       /\ UNCHANGED refused

MCFairSpec == MCInit /\ [][MCNext]_<<vars, refused>> /\ Fairness

(* An interrupt the program has not been told of waits in the queue for    *)
(* the calls that only read keys, as long as the host took every byte.     *)
HeldInQueue == pc = "idle" /\ owed /\ ~refused => Queued

(* As long as the host takes the byte the program is told of every         *)
(* interrupt, whichever calls it makes and however it alternates them:     *)
(* none of them waits for a key with the interrupt pending.                *)
InterruptIsReported == owed ~> ~owed \/ refused
=============================================================================
