------------------------------- MODULE TermMode -------------------------------
(***************************************************************************)
(* The modes of the terminal (scr_term_* in src/src/screen.c): raw or as   *)
(* the shell had it, VMIN, and O_NONBLOCK, which #GETKY sets to look for a *)
(* key and which the output must not meet.  The handler of SIGTSTP,        *)
(* scr_stopr, gives the terminal back and takes it again between any two   *)
(* steps outside the output, which blocks the signal; so the steps of the  *)
(* reads are actions of their own and an output is one.                    *)
(***************************************************************************)
EXTENDS Integers

CONSTANT
    ShellMode       \* what a shell may set its terminal to

ASSUME ModeAssumption == "raw" \notin ShellMode

VARIABLES
    tty,            \* mode of the terminal: of the shell, or "raw",
    vmin,           \* and its VMIN
    ios, orig,      \* VMIN in term_ios; term_ios_orig
    fd,             \* flags of the descriptors and of the output, see Fds
    pc,             \* the place in scr_winkey or getky_internal
    call,           \* the one of these that runs
    process,        \* "runs", "stopped" or "ended"
    given,          \* history: the mode the shell gave the terminal with,
    stopped         \* and whether a stop came since the call began

vars == <<tty, vmin, ios, orig, fd, pc, call, process, given, stopped>>

(* O_NONBLOCK of descriptors 0 and 1, which may be one open terminal; then *)
(* out_blocking, out_blocking_orig and out_flags; and whether the last     *)
(* output wrote anything without blocking.                                 *)
Fds == [in : BOOLEAN, out : BOOLEAN, same : BOOLEAN,
        blocking : BOOLEAN, blockingOrig : BOOLEAN, outFlags : BOOLEAN,
        lossy : BOOLEAN]

Place == {"idle", "setmin", "settty", "setflag", "note", "read",
          "unmin", "untty", "unflag", "unnote", "await"}

TypeOK ==
    /\ tty \in ShellMode \cup {"raw"} /\ vmin \in 0 .. 1
    /\ ios \in 0 .. 1 /\ orig \in ShellMode
    /\ fd \in Fds
    /\ pc \in Place /\ call \in {"winkey", "getky"}
    /\ process \in {"runs", "stopped", "ended"}
    /\ given \in ShellMode /\ stopped \in BOOLEAN

-----------------------------------------------------------------------------
(* fcntl(F_SETFL) on either descriptor.                                    *)
SetIn(f, nb) == [f EXCEPT !.in = nb, !.out = IF f.same THEN nb ELSE @]
SetOut(f, nb) == [f EXCEPT !.out = nb, !.in = IF f.same THEN nb ELSE @]

(* stdio hands its buffer to the terminal, or may.                         *)
Written(f) == [f EXCEPT !.lossy = @ \/ f.out]

(* scr_term_outblock *)
OutBlock(f) ==
    [SetOut(f, FALSE) EXCEPT !.blockingOrig = f.blocking, !.outFlags = f.out,
                             !.blocking = TRUE]

(* scr_term_outrestore: it is descriptor 0 that gets the flags of 1 back.  *)
OutRestore(f) == [SetIn(f, f.outFlags) EXCEPT !.blocking = f.blockingOrig]

(* scr_term_fflush *)
Fflush(f) == IF f.blocking THEN OutRestore(Written(OutBlock(f))) ELSE Written(f)

(* scr_pputchar *)
PPutchar(f) == IF f.blocking THEN Written(f) ELSE OutRestore(Written(OutBlock(f)))

(* scr_pmove, which does nothing if the cursor is there already.           *)
PMoves(f) == {f, Fflush(PPutchar(f))}

(* Some rows of scr_flush or scr_redraw, or none: the last one counts.     *)
Rows(f) == {f} \cup {OutRestore(Written(m)) : m \in PMoves(OutBlock(f))}

-----------------------------------------------------------------------------
(* What a bug in the reads could be: the flag stays when there was no key. *)
AfterReadKept(key) == IF key THEN "unmin" ELSE "idle"

(* getky_internal makes the input wait again in either case.               *)
AfterRead(key) == "unmin"

(* A bug it could have: VMIN alone makes the input wait.                   *)
WaitFlagsKept(f) == f

(* scr_term_wait: fcntl                                                    *)
WaitFlags(f) == SetIn(f, FALSE)

Idle == process = "runs" /\ pc = "idle"
At(place) == process = "runs" /\ pc = place

(* A bug it could have: #GETKY reads as the call before left the terminal. *)
FirstRead(c) == IF c = "winkey" THEN "unmin" ELSE "read"

(* scr_winkey makes the input wait first, getky_internal not to wait.      *)
First(c) == IF c = "winkey" THEN "unmin" ELSE "setmin"

Begin(c) ==
    /\ Idle
    /\ call' = c
    /\ pc' = First(c)
    /\ stopped' = FALSE
    /\ UNCHANGED <<tty, vmin, ios, orig, fd, process, given>>

Goto(place) ==
    /\ pc' = place
    /\ UNCHANGED <<tty, orig, call, process, given, stopped>>

(* scr_term_nowait                                                         *)
SetMin == At("setmin") /\ ios' = 0 /\ Goto("settty") /\ UNCHANGED <<vmin, fd>>
SetTty == At("settty") /\ vmin' = ios /\ Goto("setflag") /\ UNCHANGED <<ios, fd>>

SetFlag ==
    /\ At("setflag")
    /\ fd' = SetIn(fd, TRUE)
    /\ Goto("note")
    /\ UNCHANGED <<vmin, ios>>

Note ==
    /\ At("note")
    /\ fd' = [fd EXCEPT !.blocking = FALSE]
    /\ Goto("read")
    /\ UNCHANGED <<vmin, ios>>

(* read: it waits for a key if both VMIN and the flag say so.              *)
Waits == vmin = 1 /\ ~fd.in

Read ==
    /\ At("read")
    /\ \E key \in BOOLEAN : (Waits => key) /\ Goto(AfterRead(key))
    /\ UNCHANGED <<vmin, ios, fd>>

(* scr_term_wait                                                           *)
UnMin == At("unmin") /\ ios' = 1 /\ Goto("untty") /\ UNCHANGED <<vmin, fd>>
UnTty == At("untty") /\ vmin' = ios /\ Goto("unflag") /\ UNCHANGED <<ios, fd>>

UnFlag ==
    /\ At("unflag")
    /\ fd' = WaitFlags(fd)
    /\ Goto("unnote")
    /\ UNCHANGED <<vmin, ios>>

UnNote ==
    /\ At("unnote")
    /\ fd' = [fd EXCEPT !.blocking = TRUE]
    /\ Goto(IF call = "winkey" THEN "await" ELSE "idle")
    /\ UNCHANGED <<vmin, ios>>

(* The key of scr_winkey.                                                  *)
Await == At("await") /\ Goto("idle") /\ UNCHANGED <<vmin, ios, fd>>

(* An output of the program: rows and the cursor, or a character.          *)
Output ==
    /\ Idle
    /\ LET new == [fd EXCEPT !.lossy = FALSE]
       IN \E f \in Rows(new) \cup {PPutchar(new)} :
             fd' \in PMoves(f) \cup {Fflush(f)}
    /\ UNCHANGED <<tty, vmin, ios, orig, pc, call, process, given, stopped>>

-----------------------------------------------------------------------------
(* scr_term_resume *)
Resumed ==
    /\ tty' = orig /\ vmin' = 1
    /\ UNCHANGED <<ios, orig>>

(* A bug it could have: the mode found at the start is taken for good.     *)
BackupOnce(mode) == orig

(* A bug it could have: the backup is made when cfmakeraw has been.        *)
BackupLate(mode) == "raw"

(* The mode makeraw finds is the one to give back.                         *)
Backup(mode) == mode

(* scr_term_makeraw on a terminal of this mode                             *)
MakeRaw(mode) ==
    /\ orig' = Backup(mode)
    /\ tty' = "raw" /\ vmin' = 1 /\ ios' = 1

(* scr_stopr up to the stop.  A read that waits ends without a key: the    *)
(* one of scr_winkey is repeated, the one of getky_internal is not.        *)
Stop ==
    /\ process = "runs"
    /\ process' = "stopped" /\ stopped' = TRUE
    /\ \E f \in PMoves(fd) : fd' = [f EXCEPT !.blocking = TRUE]
    /\ Resumed
    /\ \/ UNCHANGED pc
       \/ pc = "read" /\ Waits /\ pc' = AfterRead(FALSE)
    /\ UNCHANGED <<call, given>>

(* The shell continues it, with a terminal in the mode it now has and with *)
(* the flags it left alone or cleared; scr_stopr redraws the screen.       *)
Continue ==
    /\ process = "stopped"
    /\ process' = "runs"
    /\ \E mode \in ShellMode, flags \in {fd, SetIn(fd, FALSE)} :
          /\ given' = mode
          /\ MakeRaw(mode)
          /\ \E f \in Rows(PPutchar([flags EXCEPT !.blocking = TRUE])) :
                fd' \in PMoves(f)
    /\ UNCHANGED <<pc, call, stopped>>

(* scr_finish *)
Finish ==
    /\ Idle
    /\ process' = "ended"
    /\ fd' = [fd EXCEPT !.blocking = TRUE]
    /\ Resumed
    /\ UNCHANGED <<pc, call, given, stopped>>

(* The shell starts it: scr_initx.                                         *)
Start(mode) ==
    /\ given = mode /\ orig = mode
    /\ tty = "raw" /\ vmin = 1 /\ ios = 1
    /\ fd \in {f \in Fds : ~f.in /\ ~f.out /\ f.blocking /\ f.blockingOrig
                           /\ ~f.outFlags /\ ~f.lossy}
    /\ pc = "idle" /\ call = "winkey"
    /\ process = "runs" /\ stopped = FALSE

Init == \E mode \in ShellMode : Start(mode)

Inside ==
    \/ SetMin \/ SetTty \/ SetFlag \/ Note \/ Read
    \/ UnMin \/ UnTty \/ UnFlag \/ UnNote \/ Await

Next ==
    \/ Begin("winkey") \/ Begin("getky") \/ Inside \/ Output
    \/ Stop \/ Continue \/ Finish

Spec == Init /\ [][Next]_vars

-----------------------------------------------------------------------------
(* Whenever the shell has the terminal, stopped at any step or ended, it   *)
(* is in the mode the shell gave it in, last, not at the start.            *)
ShellGetsItsMode == process # "runs" => tty = given

(* scr_winkey sleeps until there is a key, and does not spin: wherever     *)
(* stops came before, in its own steps or in #GETKY, VMIN is 1 and the     *)
(* descriptor waits.                                                       *)
WinkeySleeps == process = "runs" /\ pc = "await" => Waits

(* The program's output is written blocking, so that nothing is lost,      *)
(* whatever calls and stops came before; only the handler's may not be,    *)
(* when it comes while #GETKY looks for a key.                             *)
ProgramWritesBlocking == [][Output => ~fd'.lossy]_vars

(* #GETKY answers without a key, unless a stop came in this call.          *)
GetkyAnswers == process = "runs" /\ pc = "read" /\ ~stopped => ~Waits

(* "get a key datum, not wait even if no datum": it never waits.           *)
GetkyNeverWaits == process = "runs" /\ pc = "read" => ~Waits
=============================================================================
