------------------------------ MODULE TermProofs ------------------------------
(***************************************************************************)
(* Proofs about TermMode, for every set of modes a shell may use.  What    *)
(* has to be found is where O_NONBLOCK can be left over: on descriptor 1   *)
(* only through descriptor 0 of the same open terminal, so that clearing   *)
(* it on descriptor 0 clears all there is.                                 *)
(***************************************************************************)
EXTENDS TermMode, TLAPS

Quiet(f) == ~f.in /\ ~f.out

(* Descriptor 1 does not wait only if it is descriptor 0's terminal.       *)
Tied(f) == f.out = (f.same /\ f.in)

(* Before the flag is set and after it is cleared both descriptors wait;   *)
(* out_blocking says so but for its two assignments; and VMIN is 1 where   *)
(* nothing is to be polled, 0 where it is and no stop has made it 1.       *)
TInv ==
    /\ TypeOK
    /\ orig = given
    /\ tty = IF process = "runs" THEN "raw" ELSE given
    /\ Tied(fd)
    /\ pc \in {"idle", "setmin", "settty", "setflag", "unnote", "await"} => Quiet(fd)
    /\ pc \in {"idle", "setmin", "settty", "setflag", "note", "await"} => fd.blocking
    /\ pc \in {"idle", "setmin", "unflag", "unnote", "await"} => vmin = 1
    /\ pc = "untty" => ios = 1
    /\ process = "stopped" => stopped
    /\ ~stopped =>
         /\ pc = "settty" => ios = 0
         /\ pc \in {"setflag", "note", "read"} => vmin = 0

-----------------------------------------------------------------------------
(* What an output g leaves of the flags f.                                 *)
Kept(f, g) ==
    /\ g \in Fds /\ Tied(g)
    /\ g.blocking = f.blocking
    /\ Quiet(f) => Quiet(g) /\ g.lossy = f.lossy

(* The fields of what the four helpers of the output return.               *)
LEMMA WrittenFields ==
    ASSUME NEW f \in Fds
    PROVE  /\ Written(f) \in Fds
           /\ \A g \in {Written(f)} :
                 /\ g.in = f.in /\ g.out = f.out /\ g.same = f.same
                 /\ g.blocking = f.blocking /\ g.blockingOrig = f.blockingOrig
                 /\ g.outFlags = f.outFlags /\ g.lossy = (f.lossy \/ f.out)
  BY DEF Written, Fds

(* What OutBlock does to the flags of the descriptors,                     *)
LEMMA BlockFields ==
    ASSUME NEW f \in Fds
    PROVE  /\ OutBlock(f) \in Fds
           /\ \A g \in {OutBlock(f)} :
                 /\ g.in = (~f.same /\ f.in) /\ ~g.out /\ g.same = f.same
                 /\ g.blocking /\ g.blockingOrig = f.blocking
                 /\ g.outFlags = f.out /\ g.lossy = f.lossy
  BY DEF OutBlock, SetOut, Fds

(* and what OutRestore does.                                               *)
LEMMA RestoreFields ==
    ASSUME NEW f \in Fds
    PROVE  /\ OutRestore(f) \in Fds
           /\ \A g \in {OutRestore(f)} :
                 /\ g.in = f.outFlags /\ g.same = f.same
                 /\ g.out = IF f.same THEN f.outFlags ELSE f.out
                 /\ g.blocking = f.blockingOrig /\ g.blockingOrig = f.blockingOrig
                 /\ g.outFlags = f.outFlags /\ g.lossy = f.lossy
  BY DEF OutRestore, SetIn, Fds

(* A write inside OutBlock and OutRestore.                                 *)
LEMMA BlockedWrite ==
    ASSUME NEW f \in Fds
    PROVE  /\ OutRestore(Written(OutBlock(f))) \in Fds
           /\ \A g \in {OutRestore(Written(OutBlock(f)))} :
                 /\ g.in = f.out /\ g.same = f.same /\ g.out = (f.same /\ f.out)
                 /\ g.blocking = f.blocking /\ g.blockingOrig = f.blocking
                 /\ g.outFlags = f.out /\ g.lossy = f.lossy
<1> DEFINE b == OutBlock(f)  w == Written(b)  g == OutRestore(w)
<1>1. /\ b \in Fds /\ ~b.out /\ b.same = f.same
      /\ b.blockingOrig = f.blocking /\ b.outFlags = f.out /\ b.lossy = f.lossy
  BY BlockFields
<1>2. /\ w \in Fds /\ ~w.out /\ w.same = f.same
      /\ w.blockingOrig = f.blocking /\ w.outFlags = f.out /\ w.lossy = f.lossy
  <2> HIDE DEF b
  <2> QED  BY <1>1, WrittenFields DEF Fds
<1>3. /\ g \in Fds /\ g.in = f.out /\ g.same = f.same /\ g.out = (f.same /\ f.out)
      /\ g.blocking = f.blocking /\ g.blockingOrig = f.blocking
      /\ g.outFlags = f.out /\ g.lossy = f.lossy
  <2> HIDE DEF w
  <2> QED  BY <1>2, RestoreFields DEF Fds
<1> QED  BY <1>3

(* An output to the terminal keeps them.                                   *)
LEMMA OutputsKeep ==
    ASSUME NEW f \in Fds, Tied(f)
    PROVE  Kept(f, PPutchar(f)) /\ Kept(f, Fflush(f)) /\ Kept(f, f)
<1> DEFINE g == OutRestore(Written(OutBlock(f)))
<1>1. Kept(f, Written(f))
  BY WrittenFields DEF Kept, Tied, Quiet, Fds
<1>2. /\ g \in Fds /\ g.in = f.out /\ g.same = f.same /\ g.out = (f.same /\ f.out)
      /\ g.blocking = f.blocking /\ g.lossy = f.lossy
  BY BlockedWrite
<1>3. Kept(f, g)
  <2> HIDE DEF g
  <2> QED  BY <1>2 DEF Kept, Tied, Quiet, Fds
<1>4. Kept(f, f)  BY DEF Kept
<1> QED  BY <1>1, <1>3, <1>4 DEF PPutchar, Fflush

(* Keeping is transitive.                                                  *)
LEMMA KeptThen ==
    ASSUME NEW f, NEW g, NEW h, Kept(f, g), Kept(g, h)
    PROVE  Kept(f, h)
  BY DEF Kept

(* Cursor movements keep the descriptors.                                  *)
LEMMA MovesKeep ==
    ASSUME NEW f \in Fds, Tied(f)
    PROVE  \A g \in PMoves(f) : Kept(f, g)
<1>1. Kept(f, f) /\ Kept(f, PPutchar(f))  BY OutputsKeep
<1>2. PPutchar(f) \in Fds /\ Tied(PPutchar(f))  BY <1>1 DEF Kept
<1>3. Kept(PPutchar(f), Fflush(PPutchar(f)))  BY <1>2, OutputsKeep
<1>4. Kept(f, Fflush(PPutchar(f)))  BY <1>1, <1>3, KeptThen
<1> QED  BY <1>1, <1>4 DEF PMoves

(* So does a row: inside its OutBlock nothing is lost and only a clear     *)
(* flag, or the one OutBlock saved, is restored.                           *)
LEMMA RowsKeep ==
    ASSUME NEW f \in Fds, Tied(f), f.blocking
    PROVE  \A g \in Rows(f) : Kept(f, g)
<1> DEFINE b == OutBlock(f)
<1>1. /\ b \in Fds /\ ~b.out /\ b.same = f.same /\ b.blocking /\ b.blockingOrig
      /\ b.outFlags = f.out /\ b.lossy = f.lossy
  BY BlockFields
<1>2. ASSUME NEW m \in PMoves(b)
      PROVE  /\ m \in Fds /\ ~m.out /\ m.same = f.same /\ m.blockingOrig
             /\ m.outFlags => f.out
             /\ m.lossy = f.lossy
  <2> DEFINE p == Written(b)  w == OutRestore(Written(OutBlock(p)))
  <2>1. m = b \/ m = w  BY <1>1, WrittenFields DEF PMoves, PPutchar, Fflush
  <2> HIDE DEF b
  <2>2. p \in Fds /\ ~p.out /\ p.same = f.same /\ p.blocking /\ p.lossy = f.lossy
    BY <1>1, WrittenFields DEF Fds
  <2>3. /\ w \in Fds /\ ~w.out /\ w.same = f.same /\ w.blockingOrig
        /\ ~w.outFlags /\ w.lossy = f.lossy
    <3> HIDE DEF p
    <3> QED  BY <2>2, BlockedWrite DEF Fds
  <2> HIDE DEF w
  <2> QED  BY <1>1, <2>1, <2>3
<1>3. ASSUME NEW m \in PMoves(b)
      PROVE  Kept(f, OutRestore(Written(m)))
  <2> DEFINE w == Written(m)  g == OutRestore(w)
  <2> HIDE DEF b
  <2>1. /\ w \in Fds /\ ~w.out /\ w.same = f.same /\ w.blockingOrig
        /\ w.outFlags => f.out
        /\ w.lossy = f.lossy
    BY <1>2, WrittenFields DEF Fds
  <2>2. /\ g \in Fds /\ g.in = w.outFlags /\ g.out = (g.same /\ g.in)
        /\ g.in => f.out
        /\ g.blocking /\ g.lossy = f.lossy
    <3> HIDE DEF w
    <3> QED  BY <2>1, RestoreFields DEF Fds
  <2> HIDE DEF g
  <2>3. Kept(f, g)  BY <2>2 DEF Kept, Tied, Quiet, Fds
  <2> QED  BY <2>3 DEF g
<1>4. Kept(f, f)  BY OutputsKeep
<1> QED  BY <1>3, <1>4 DEF Rows

-----------------------------------------------------------------------------
(* The invariant holds at the start.                                       *)
LEMMA InitInv == Init => TInv
<1> SUFFICES ASSUME NEW mode \in ShellMode, Start(mode) PROVE TInv  BY DEF Init
<1>1. fd \in Fds /\ Tied(fd) /\ Quiet(fd) /\ fd.blocking  BY DEF Start, Fds, Tied, Quiet
<1>2. /\ given = mode /\ orig = mode /\ tty = "raw" /\ vmin = 1 /\ ios = 1
      /\ pc = "idle" /\ call = "winkey" /\ process = "runs" /\ stopped = FALSE
  BY DEF Start
<1>3. TypeOK
  <2>1. tty \in ShellMode \cup {"raw"} /\ vmin \in 0 .. 1 /\ ios \in 0 .. 1
    BY <1>2
  <2>2. orig \in ShellMode /\ given \in ShellMode  BY <1>2
  <2>3. pc \in Place /\ call \in {"winkey", "getky"}  BY <1>2 DEF Place
  <2>4. process \in {"runs", "stopped", "ended"}  BY <1>2
  <2>5. stopped \in BOOLEAN  BY <1>2
  <2> QED  BY <1>1, <2>1, <2>2, <2>3, <2>4, <2>5 DEF TypeOK
<1> QED  BY <1>1, <1>2, <1>3 DEF TInv

(* The steps of the reads, in which the process runs.                      *)
LEMMA ReadsInv ==
    ASSUME TInv, Begin("winkey") \/ Begin("getky") \/ Inside
    PROVE  TInv'
<1> USE DEF TInv, TypeOK, Place, Idle, At, Goto
<1>1. ASSUME NEW c \in {"winkey", "getky"}, Begin(c)  PROVE TInv'
  BY <1>1 DEF Begin, First
<1>2. CASE SetMin  BY <1>2 DEF SetMin
<1>3. CASE SetTty  BY <1>3 DEF SetTty
<1>4. CASE SetFlag  BY <1>4 DEF SetFlag, SetIn, Fds, Tied
<1>5. CASE Note  BY <1>5 DEF Note, Fds, Tied
<1>6. CASE Read  BY <1>6 DEF Read, AfterRead
<1>7. CASE UnMin  BY <1>7 DEF UnMin
<1>8. CASE UnTty  BY <1>8 DEF UnTty
<1>9. CASE UnFlag  BY <1>9 DEF UnFlag, WaitFlags, SetIn, Fds, Tied, Quiet
<1>10. CASE UnNote  BY <1>10 DEF UnNote, Fds, Tied, Quiet
<1>11. CASE Await  BY <1>11 DEF Await
<1> QED  BY <1>1, <1>2, <1>3, <1>4, <1>5, <1>6, <1>7, <1>8, <1>9, <1>10, <1>11 DEF Inside

(* An output of the program, from flags that wait.                         *)
LEMMA OutputKeeps ==
    ASSUME TInv, Output
    PROVE  Kept([fd EXCEPT !.lossy = FALSE], fd')
<1> DEFINE new == [fd EXCEPT !.lossy = FALSE]
<1>1. new \in Fds /\ Tied(new) /\ new.blocking
  BY DEF TInv, TypeOK, Output, Idle, Fds, Tied
<1>2. PICK f \in Rows(new) \cup {PPutchar(new)} : fd' \in PMoves(f) \cup {Fflush(f)}
  BY DEF Output
<1> HIDE DEF new
<1>3. Kept(new, f)  BY <1>1, <1>2, RowsKeep, OutputsKeep
<1>4. Kept(f, fd')  BY <1>2, <1>3, MovesKeep, OutputsKeep DEF Kept
<1>5. Kept(new, fd')  BY <1>3, <1>4, KeptThen
<1> QED  BY <1>5 DEF new

(* The program writes.                                                     *)
LEMMA OutputInv ==
    ASSUME TInv, Output
    PROVE  TInv'
<1>1. Kept([fd EXCEPT !.lossy = FALSE], fd')  BY OutputKeeps
<1>2. fd' \in Fds /\ Tied(fd') /\ Quiet(fd') /\ fd'.blocking
  BY <1>1 DEF Kept, Quiet, TInv, TypeOK, Output, Idle, Fds
<1> QED  BY <1>2 DEF Output, Idle, TInv, TypeOK, Tied, Quiet

(* The signal: whatever the reads had set, what they rely on is there when *)
(* they go on.                                                             *)
LEMMA StopInv ==
    ASSUME TInv, Stop
    PROVE  TInv'
<1>1. PICK f \in PMoves(fd) : fd' = [f EXCEPT !.blocking = TRUE]  BY DEF Stop
<1>2. Kept(fd, f)  BY MovesKeep DEF TInv, TypeOK
<1>3. /\ fd' \in Fds /\ Tied(fd') /\ fd'.blocking
      /\ Quiet(fd) => Quiet(fd')
  BY <1>1, <1>2 DEF Kept, Fds, Tied, Quiet
<1>4. pc' = pc \/ pc' = "unmin"  BY DEF Stop, AfterRead
<1> QED  BY <1>3, <1>4 DEF Stop, Resumed, TInv, TypeOK, Place

(* The shell continues the emulator in whatever mode it likes.             *)
LEMMA ContinueInv ==
    ASSUME TInv, Continue
    PROVE  TInv'
<1>1. PICK mode \in ShellMode, flags \in {fd, SetIn(fd, FALSE)} :
         /\ given' = mode /\ MakeRaw(mode)
         /\ \E f \in Rows(PPutchar([flags EXCEPT !.blocking = TRUE])) : fd' \in PMoves(f)
  BY DEF Continue
<1> DEFINE old == [flags EXCEPT !.blocking = TRUE]
<1>2. old \in Fds /\ Tied(old) /\ old.blocking /\ (Quiet(fd) => Quiet(old))
  BY DEF TInv, TypeOK, SetIn, Fds, Tied, Quiet
<1>3. PICK f \in Rows(PPutchar(old)) : fd' \in PMoves(f)  BY <1>1
<1> HIDE DEF old
<1>4. Kept(old, PPutchar(old))  BY <1>2, OutputsKeep
<1>5. Kept(PPutchar(old), f)  BY <1>2, <1>3, <1>4, RowsKeep DEF Kept
<1>6. Kept(f, fd')  BY <1>3, <1>5, MovesKeep DEF Kept
<1>7. Kept(old, fd')  BY <1>4, <1>5, <1>6, KeptThen
<1>8. fd' \in Fds /\ Tied(fd') /\ fd'.blocking /\ (Quiet(fd) => Quiet(fd'))
  BY <1>2, <1>7 DEF Kept
<1> QED  BY <1>1, <1>8 DEF Continue, MakeRaw, Backup, TInv, TypeOK, Tied, Quiet

(* A call returns.                                                         *)
LEMMA FinishInv ==
    ASSUME TInv, Finish
    PROVE  TInv'
  BY DEF Finish, Idle, Resumed, TInv, TypeOK, Fds, Tied, Quiet, Place

(* Every step keeps the invariant.                                         *)
LEMMA StepInv == TInv /\ [Next]_vars => TInv'
<1> SUFFICES ASSUME TInv, [Next]_vars PROVE TInv'  OBVIOUS
<1>1. CASE UNCHANGED vars
  BY <1>1 DEF vars, TInv, TypeOK, Tied, Quiet
<1> QED  BY <1>1, ReadsInv, OutputInv, StopInv, ContinueInv, FinishInv DEF Next

(* The inductive invariant.                                                *)
THEOREM TermInvariant == Spec => []TInv
  BY InitInv, StepInv, PTL DEF Spec

-----------------------------------------------------------------------------
(* Modes, flags and places keep their types.                               *)
THEOREM TermTypes == Spec => []TypeOK
<1>1. TInv => TypeOK  BY DEF TInv
<1> QED  BY <1>1, TermInvariant, PTL

(* However often and wherever the process is stopped, the shell gets the   *)
(* terminal in the mode it last gave it.                                   *)
THEOREM ShellIsGivenItsMode == Spec => []ShellGetsItsMode
<1>1. TInv => ShellGetsItsMode  BY DEF TInv, ShellGetsItsMode
<1> QED  BY <1>1, TermInvariant, PTL

(* scr_winkey sleeps for its key and never spins.                          *)
THEOREM WinkeyDoesSleep == Spec => []WinkeySleeps
<1>1. TInv => WinkeySleeps  BY DEF TInv, WinkeySleeps, Waits, Quiet
<1> QED  BY <1>1, TermInvariant, PTL

(* #GETKY does not wait in a call in which no stop came.                   *)
THEOREM GetkyDoesAnswer == Spec => []GetkyAnswers
<1>1. TInv => GetkyAnswers  BY DEF TInv, GetkyAnswers, Waits
<1> QED  BY <1>1, TermInvariant, PTL

(* No output of the program meets a terminal that does not block.          *)
THEOREM ProgramsWriteBlocking == Spec => ProgramWritesBlocking
<1>1. TInv /\ [Next]_vars => [Output => ~fd'.lossy]_vars
  <2> SUFFICES ASSUME TInv, Output PROVE ~fd'.lossy  OBVIOUS
  <2>1. Kept([fd EXCEPT !.lossy = FALSE], fd')  BY OutputKeeps
  <2> QED  BY <2>1 DEF Kept, Quiet, TInv, TypeOK, Output, Idle, Fds
<1> QED  BY <1>1, TermInvariant, PTL DEF Spec, ProgramWritesBlocking
=============================================================================
