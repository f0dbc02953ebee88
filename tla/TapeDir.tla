------------------------------- MODULE TapeDir -------------------------------
(***************************************************************************)
(* Reading the directory of a tape, and the tapes as a whole: dio_dopen    *)
(* with its users #RDI (one entry per call) and #DIR (all of them), which  *)
(* all move the one directory stream, and the emulator being killed.       *)
(***************************************************************************)
EXTENDS Tape

-----------------------------------------------------------------------------
(* dio_dopen(d): where the stream and dircurrent are left and the entry    *)
(* found; "end" when there is none, "fault" when readdir is given NULL.    *)

Outcome(e, rest, cur) == [entry |-> e, stream |-> rest, cur |-> cur]

(* A bug it could have: dircurrent counts every call, not every request.   *)
NextFileCounting(d, rest, cur) ==
    LET real == {k \in DOMAIN rest : rest[k] \notin Dot}
        k == CHOOSE i \in real : \A j \in real : i <= j
    IN IF real # {}
         THEN Outcome(rest[k], SubSeq(rest, k + 1, Len(rest)), cur + k)
         ELSE Outcome("end", Null, IF rest = <<>> THEN cur ELSE d + 1)

(* The next entry that is a file: dircurrent is set with every entry read. *)
NextFile(d, rest, cur) ==
    LET real == {k \in DOMAIN rest : rest[k] \notin Dot}
        k == CHOOSE i \in real : \A j \in real : i <= j
    IN IF real # {}
         THEN Outcome(rest[k], SubSeq(rest, k + 1, Len(rest)), d + 1)
         ELSE Outcome("end", Null, IF rest = <<>> THEN cur ELSE d + 1)

(* A bug it could have: request 0 goes on with a stream that is still open.*)
DirOpenReused(d) ==
    LET rest == IF d = 0 /\ stream = Null THEN dir ELSE stream
    IN IF rest = Null THEN Outcome("fault", Null, d)
       ELSE NextFile(d, rest, d)

(* Request 0 starts over.  A request that is not the next one skips that   *)
(* many entries, from wherever the stream is.                              *)
DirOpen(d) ==
    LET rest == IF d = 0 THEN dir ELSE stream
        cur == IF d = 0 THEN 0 ELSE dircurrent
    IN IF rest = Null THEN Outcome("fault", Null, cur)
       ELSE IF d = cur THEN NextFile(d, rest, cur)
       ELSE IF Len(rest) < d THEN Outcome("end", Null, cur)
       ELSE NextFile(d, SubSeq(rest, d + 1, Len(rest)), cur)

-----------------------------------------------------------------------------
(* sos_rdi, for the three ways its key poll goes on.                       *)

(* A bug it could have: the number stays where the directory ended.        *)
RewoundNot(t) == dirno

Rewound(t) == [dirno EXCEPT ![t] = 0]

(* BREAK: the tape is rewound.                                             *)
RdiBreak(t) ==
    /\ alive
    /\ dirno' = Rewound(t)
    /\ ret' = 8
    /\ UNCHANGED <<files, open, ascii, program, stream, dircurrent, alive>>

(* RETURN, when the byte at RETPOI is not 0: the answer is "not found".    *)
RdiReturn(t) ==
    /\ alive
    /\ ret' = 8
    /\ UNCHANGED <<files, open, ascii, program, lister, alive>>

(* A bug it could have: the position runs on past the largest number.      *)
FoundUnwound(t) == [dirno EXCEPT ![t] = @ + 1]

Found(t) == [dirno EXCEPT ![t] = IF @ < MaxDirno THEN @ + 1 ELSE 0]

(* The entry becomes the name in the information block; the file of that   *)
(* name, which need not be the entry, is opened and left open.  When it    *)
(* does not open the call succeeds and the rest of the block is unchanged. *)
RdiFound(t, e) ==
    LET u == Stou[Utos[e]] IN
    /\ ReadInfo(u)
    /\ ascii' = Mode(u, Mode(e, ascii))
    /\ fib' = [name |-> Utos[e],
               attr |-> IF Opens(u) THEN disk[u].attr ELSE fib.attr]
    /\ dirno' = Found(t)
    /\ ret' = 0
    /\ UNCHANGED <<mem, alive>>

RdiRead(t) ==
    LET o == DirOpen(dirno[t]) IN
    /\ alive
    /\ stream' = o.stream /\ dircurrent' = o.cur
    /\ CASE o.entry = "fault" ->
              alive' = FALSE /\ UNCHANGED <<open, ascii, program, dirno, ret>>
         [] o.entry = "end" ->
              /\ dirno' = Rewound(t)
              /\ ret' = 8
              /\ UNCHANGED <<open, ascii, program, alive>>
         [] OTHER -> RdiFound(t, o.entry)
    /\ UNCHANGED files

(* opendir(".") fails.                                                     *)
RdiNoDirectory(t) ==
    /\ alive
    /\ dirno[t] = 0
    /\ stream' = Null /\ ret' = 8
    /\ UNCHANGED <<files, open, ascii, program, dircurrent, dirno, alive>>

Rdi(t) == RdiBreak(t) \/ RdiReturn(t) \/ RdiRead(t) \/ RdiNoDirectory(t)

-----------------------------------------------------------------------------
(* sos_tdir: every entry in turn, each opened for its header and closed.   *)

Tdir ==
    LET real == {i \in DOMAIN dir : dir[i] \notin Dot}
        seen == {i \in real : Opens(dir[i])}
        last == CHOOSE i \in seen : \A j \in seen : j <= i
    IN /\ alive
       /\ open' = IF real = {} THEN open ELSE Null
       /\ ascii' = IF seen = {} THEN ascii ELSE disk[dir[last]].attr = "asc"
       /\ stream' = Null
       /\ dircurrent' = IF dir # <<>> /\ dir[Len(dir)] \in Dot
                          THEN Cardinality(real) + 1 ELSE Cardinality(real)
       /\ ret' = 0
       /\ UNCHANGED <<files, program, dirno, alive>>

TdirNoDirectory ==
    /\ alive
    /\ stream' = Null /\ ret' = 0
    /\ UNCHANGED <<files, open, ascii, program, dircurrent, dirno, alive>>

(* The emulator ends, or is killed, and is started again.  Of a file that  *)
(* was open for writing a kill leaves nothing, not even the header.        *)
Restart ==
    /\ open' = Null /\ ascii' = FALSE
    /\ fib' = [fib EXCEPT !.attr = "bin"]
    /\ size' = 0 /\ mem' = [i \in 1 .. SizeCap |-> NUL]
    /\ ret' = 0 /\ stream' = Null /\ dircurrent' = -1
    /\ dirno' = [t \in Deck |-> 0]
    /\ alive' = TRUE
    /\ UNCHANGED dir
    /\ \/ UNCHANGED disk
       \/ /\ open # Null /\ open.mode = "w"
          /\ disk' = [disk EXCEPT ![open.file] = [attr |-> "asc", body |-> <<>>]]

-----------------------------------------------------------------------------
(* The files of a host: texts and data of any kind.                        *)
Init ==
    /\ Started
    /\ disk \in [Unix -> {Null} \cup
                   [attr : {"asc"}, body : UNION {[1 .. n -> Datum] :
                                                  n \in 0 .. SizeCap}]]
    /\ Locked \subseteq Exists
    /\ dir \in [1 .. Cardinality(Exists \cup Dot) -> Exists \cup Dot]
    /\ Exists \cup Dot = {dir[i] : i \in DOMAIN dir}

Transfer == WriteOpen \/ ReadOpen \/ WriteData \/ ReadData

Program ==
    \/ \E n \in Sos, a \in Attr : FileCall(n, a)
    \/ \E i \in 1 .. SizeCap, c \in Datum : Store(i, c)
    \/ \E n \in 0 .. SizeCap : SetSize(n)

Next == Program \/ Transfer \/ (\E t \in Deck : Rdi(t))
        \/ Tdir \/ TdirNoDirectory \/ Restart

Spec == Init /\ [][Next]_vars

-----------------------------------------------------------------------------
(* asciimode belongs to the open file, whatever was opened and closed in   *)
(* between: a transfer converts if and only if the file is a text.         *)
ModeMatches == open # Null => ascii = (disk[open.file].attr = "asc")

(* The inductive invariant behind it: what is open is a file of the disk.  *)
OpenInv == TypeOK /\ (open # Null => disk[open.file] # Null) /\ ModeMatches

(* A recording is what a load of the whole file would give.                *)
ImageOf(f) ==
    IF f.attr = "asc"
      THEN Append([i \in 1 .. Smaller(Len(f.body), SizeCap - 1) |->
                      IF f.body[i] = LF THEN CR ELSE f.body[i]], NUL)
      ELSE SubSeq(f.body, 1, Smaller(Len(f.body), SizeCap))

Recordings ==
    [u \in Unix |-> IF disk[u] = Null THEN Null
                    ELSE [attr |-> disk[u].attr, image |-> ImageOf(disk[u])]]

Abstract == INSTANCE Cassette WITH
    Name <- Unix, Cap <- SizeCap, memory <- mem, count <- size, tray <- open,
    store <- Recordings

(* A program that saves and loads sees a set of recordings: whatever is    *)
(* listed, opened, closed or killed in between, a recording changes only   *)
(* when it is opened to save or saved.                                     *)
KeepsRecordings == Abstract!CSpec

(* Every successful call takes the step of Cassette it is named for: what  *)
(* was saved is what is loaded, in the bytes asked for and no others.      *)
TransfersKeepPromises ==
    [][/\ WriteOpen /\ ret' = 0 => Abstract!New(Stou[fib.name], fib.attr)
       /\ ReadOpen /\ ret' = 0 => Abstract!Play(Stou[fib.name])
       /\ WriteData /\ open # Null /\ open.mode = "w" =>
             Abstract!Save /\ ret' = 0
       /\ ReadData /\ ret' = 0 /\ open # Null /\ open.mode = "r" =>
             Abstract!Load
       /\ \A t \in Deck : RdiRead(t) /\ alive' /\ ret' = 0 /\ open' # Null =>
             Abstract!Play(Stou[fib'.name])
      ]_vars

-----------------------------------------------------------------------------
(* readdir is never given the null pointer that the end of an earlier      *)
(* listing left behind.                                                    *)
NeverFaults == alive

(* Why that holds with one tape: as long as it is not rewound the stream   *)
(* is open and stands where the tape's next request is.                    *)
SoloInv ==
    /\ OpenInv
    /\ alive
    /\ \A t \in Deck : dirno[t] # 0 => stream # Null /\ dircurrent = dirno[t]
=============================================================================
