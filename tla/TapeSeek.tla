------------------------------ MODULE TapeSeek ------------------------------
(***************************************************************************)
(* What #RDI finds (dio_dopen): the entries of a directory one by one, in  *)
(* its order, while the program opens, saves and so creates files.         *)
(***************************************************************************)
EXTENDS TapeDir

VARIABLE had    \* history: entries of the directory when the stream was opened

SeekInit == Init /\ had = 0

(* Request 0 opens the stream.                                             *)
Request(t) == Rdi(t) /\ had' = IF dirno[t] = 0 THEN Len(dir) ELSE had

(* A program that reads the directory by #RDI only.                        *)
SeekNext ==
    \/ (Program \/ Transfer \/ Restart) /\ UNCHANGED had
    \/ \E t \in Deck : Request(t)

SeekSpec == SeekInit /\ [][SeekNext]_<<vars, had>>

-----------------------------------------------------------------------------
(* The files among the first n entries.                                    *)
Files(n) == Cardinality({i \in 1 .. n : dir[i] \notin Dot})

(* The answer to the request is the next of the first "there" entries that *)
(* are files.                                                              *)
NextFound(t, there) ==
    /\ ret' = 0
    /\ \E k \in 1 .. there :
          /\ dir[k] \notin Dot
          /\ Files(k) = dirno[t] + 1
          /\ fib'.name = Utos[dir[k]]

EachFound ==
    \A t \in Deck : RdiRead(t) =>
        LET there == IF dirno[t] = 0 THEN Len(dir) ELSE had
        IN alive' /\ (dirno[t] < Files(there) => NextFound(t, there))

(* "seek to requested point": of the files that were there when the stream *)
(* was opened, the request of a tape finds the one it asks for, no file    *)
(* twice and none left out, whatever is created meanwhile; and no request  *)
(* ends the emulator.                                                      *)
SeekReachesRequest == [][EachFound]_<<vars, had>>

(* While a tape is not rewound the stream is behind as many files as the   *)
(* tape has been given, with all the others that were there ahead of it in *)
(* their order, or it is behind all of them.                               *)
InPlace(t) ==
    dirno[t] # 0 =>
        /\ had <= Len(dir)
        /\ \/ Files(had) <= dirno[t]
           \/ \E k \in 0 .. had :
                 /\ Files(k) = dirno[t]
                 /\ had - k <= Len(stream)
                 /\ \A i \in 1 .. had - k : stream[i] = dir[k + i]

SeekInv == SoloInv /\ had \in Nat /\ \A t \in Deck : InPlace(t)
=============================================================================
