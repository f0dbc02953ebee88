------------------------------- MODULE MCSeek -------------------------------
(***************************************************************************)
(* Listing a directory of empty files: what is in them makes no difference *)
(* to it.                                                                  *)
(***************************************************************************)
EXTENDS MCTape, TapeSeek

MCInit == SeekInit /\ \A u \in Exists : disk[u].body = <<>>

(* The program lists and opens files and leaves its memory alone.          *)
NamesNext ==
    \/ /\ (\E n \in Sos : FileCall(n, "bin")) \/ Transfer \/ Restart
       /\ UNCHANGED had
    \/ \E t \in Deck : Request(t)

NamesSpec == MCInit /\ [][NamesNext]_<<vars, had>>

(* Tapes and #DIR on a directory that can always be opened.                *)
ListNext ==
    \/ Tdir /\ UNCHANGED had
    \/ \E t \in Deck : RdiRead(t) /\ Request(t)

ListSpec == MCInit /\ [][ListNext]_<<vars, had>>
=============================================================================
