-------------------------------- MODULE Tape --------------------------------
(***************************************************************************)
(* The tapes of S-OS on the files of the current directory (src/src/dio.c, *)
(* and its callers in src/src/trap.c).  All tapes share one open file      *)
(* (openfp, with asciimode), one directory stream (dirfp) and one position *)
(* in it (dircurrent); each has a directory number of its own.             *)
(*                                                                         *)
(* A file is its attribute and the bytes behind the header; a file without *)
(* a header is a text.  Load and start addresses travel with the attribute *)
(* and are left out, and so is a full disk.                                *)
(***************************************************************************)
EXTENDS Integers, Sequences, FiniteSets

CONSTANTS
    Unix,           \* names of files of the host
    Sos,            \* names of S-OS
    Utos, Stou,     \* dio_utos: Unix -> Sos, dio_stou: Sos -> Unix
    Locked,         \* the files fopen refuses
    Dot,            \* "." and ".."
    Deck,           \* the tapes: T, S, Q
    Datum,          \* bytes: at least these three
    CR, LF, NUL,
    Null,           \* a null pointer; a file that does not exist
    SizeCap,        \* 0xffff: the largest size
    MaxDirno        \* UCHAR_MAX: the largest directory number

Attr == {"asc", "bin"}          \* DIO_MODE_ASC, or any other
File == [attr : Attr, body : Seq(Datum)]
Handle == [file : Unix, mode : {"r", "w"}]
Memory == [1 .. SizeCap -> Datum]
Entry == Unix \cup Dot

ASSUME NameAssumption ==
    /\ Utos \in [Unix -> Sos] /\ Stou \in [Sos -> Unix]
    /\ Locked \subseteq Unix /\ Unix \cap Dot = {}
    /\ IsFiniteSet(Unix \cup Dot) /\ {"end", "fault"} \cap Unix = {}
    /\ Null \notin File \cup Handle \cup Seq(Entry)
                   \cup [attr : Attr, image : Seq(Datum)]

ASSUME DataAssumption ==
    /\ {CR, LF, NUL} \subseteq Datum /\ CR # LF /\ CR # NUL /\ LF # NUL
    /\ SizeCap \in Nat \ {0} /\ MaxDirno \in Nat \ {0}

VARIABLES
    disk,           \* the files
    dir,            \* the entries of the directory in the order of readdir
    open,           \* openfp
    ascii,          \* asciimode
    fib,            \* name and attribute in the information block, EM_IBFAD
    size,           \* #SIZE
    mem,            \* the memory at #DTADR
    ret,            \* the error code of the last call; 0: success
    stream,         \* dirfp: the entries readdir has not returned yet
    dircurrent,
    dirno,          \* of each tape
    alive           \* the emulator is running

files == <<disk, dir>>
program == <<fib, size, mem>>
lister == <<stream, dircurrent, dirno>>
vars == <<disk, dir, open, ascii, program, ret, lister, alive>>

TypeOK ==
    /\ disk \in [Unix -> File \cup {Null}]
    /\ dir \in Seq(Entry)
    /\ open \in Handle \cup {Null}
    /\ ascii \in BOOLEAN
    /\ fib \in [name : Sos, attr : Attr]
    /\ size \in 0 .. SizeCap
    /\ mem \in Memory
    /\ ret \in {0, 1, 8, 12}
    /\ stream \in Seq(Entry) \cup {Null}
    /\ dircurrent \in Nat \cup {-1}
    /\ dirno \in [Deck -> 0 .. MaxDirno]
    /\ alive \in BOOLEAN

Exists == {u \in Unix : disk[u] # Null}
Smaller(a, b) == IF a <= b THEN a ELSE b

(* The emulator when it starts: nothing open, every tape rewound.          *)
Started ==
    /\ open = Null /\ ascii = FALSE
    /\ size = 0 /\ mem = [i \in 1 .. SizeCap |-> NUL]
    /\ fib \in [name : Sos, attr : {"bin"}]
    /\ ret = 0
    /\ stream = Null /\ dircurrent = -1 /\ dirno = [t \in Deck |-> 0]
    /\ alive = TRUE

-----------------------------------------------------------------------------
(* The program between its calls.                                          *)

(* #FILE *)
FileCall(n, a) ==
    /\ alive
    /\ fib' = [name |-> n, attr |-> a]
    /\ UNCHANGED <<files, open, ascii, size, mem, ret, lister, alive>>

(* It stores a byte of a text or of data,                                  *)
Store(i, c) ==
    /\ alive
    /\ mem' = [mem EXCEPT ![i] = c]
    /\ UNCHANGED <<files, open, ascii, fib, size, ret, lister, alive>>

(* and the size, at #SIZE.                                                 *)
SetSize(n) ==
    /\ alive
    /\ size' = n
    /\ UNCHANGED <<files, open, ascii, fib, mem, ret, lister, alive>>

-----------------------------------------------------------------------------
(* Opening.  Whatever was open is closed first.                            *)

(* A bug it could have: no room for the NUL of a text.                     *)
FileSizeShort(f) == Smaller(Len(f.body), SizeCap)

(* A text needs one byte more than its file, for the NUL.                  *)
FileSize(f) ==
    Smaller(Len(f.body) + (IF f.attr = "asc" THEN 1 ELSE 0), SizeCap)

Opens(u) == u \in Exists \ Locked

(* dio_wopen: a new entry may or may not show up in a stream already open. *)
WriteOpen ==
    LET u == Stou[fib.name] IN
    /\ alive
    /\ IF u \in Locked
         THEN /\ open' = Null /\ ret' = 1
              /\ UNCHANGED <<disk, dir, ascii, stream>>
         ELSE /\ open' = [file |-> u, mode |-> "w"] /\ ret' = 0
              /\ ascii' = (fib.attr = "asc")
              /\ disk' = [disk EXCEPT ![u] = [attr |-> fib.attr, body |-> <<>>]]
              /\ IF u \in Exists
                   THEN UNCHANGED <<dir, stream>>
                   ELSE /\ dir' = Append(dir, u)
                        /\ \/ UNCHANGED stream
                           \/ stream # Null /\ stream' = Append(stream, u)
    /\ UNCHANGED <<program, dircurrent, dirno, alive>>

(* A bug it could have: only a text sets the mode, and nothing resets it.  *)
ModeKept(u, before) ==
    IF Opens(u) /\ disk[u].attr = "asc" THEN TRUE ELSE before

(* asciimode after dio_ropen of u.                                         *)
Mode(u, before) == IF Opens(u) THEN disk[u].attr = "asc" ELSE before

(* dio_ropen and what its callers store; NULL is left if u does not open.  *)
ReadInfo(u) ==
    /\ open' = IF Opens(u) THEN [file |-> u, mode |-> "r"] ELSE Null
    /\ size' = IF Opens(u) THEN FileSize(disk[u]) ELSE size

(* sos_tropn *)
ReadOpen ==
    LET u == Stou[fib.name] IN
    /\ alive
    /\ ReadInfo(u)
    /\ ascii' = Mode(u, ascii)
    /\ fib' = IF Opens(u) THEN [fib EXCEPT !.attr = disk[u].attr] ELSE fib
    /\ ret' = IF Opens(u) THEN 0 ELSE 8
    /\ UNCHANGED <<files, mem, lister, alive>>

-----------------------------------------------------------------------------
(* Transfer of #SIZE bytes at #DTADR, after which the file is closed.      *)

ToDisk(c) == IF c = CR THEN LF ELSE c
ToMemory(c) == IF c = LF THEN CR ELSE c

(* A bug it could have: a last byte that is not NUL is dropped.            *)
WrittenShort(m, n) ==
    IF ascii THEN [i \in 1 .. n - 1 |-> ToDisk(m[i])]
    ELSE [i \in 1 .. n |-> m[i]]

(* dio_wdd.  In a text the last byte is written only if it is not NUL, and *)
(* as it is; of a text of no bytes the first byte counts as the last.      *)
Written(m, n) ==
    LET last == m[IF n = 0 THEN 1 ELSE n]
    IN IF ascii
         THEN [i \in 1 .. n - 1 |-> ToDisk(m[i])]
                \o (IF last = NUL THEN <<>> ELSE <<last>>)
         ELSE [i \in 1 .. n |-> m[i]]

(* A file that is open for reading takes no bytes, and only the writer of  *)
(* binary data looks at that.                                              *)
WriteData ==
    /\ alive
    /\ open' = Null
    /\ IF open = Null
         THEN ret' = 12 /\ UNCHANGED disk
         ELSE IF open.mode = "w"
           THEN /\ ret' = 0
                /\ disk' = [disk EXCEPT ![open.file].body = Written(mem, size)]
           ELSE /\ ret' = IF ~ascii /\ size > 0 THEN 1 ELSE 0
                /\ UNCHANGED disk
    /\ UNCHANGED <<dir, ascii, program, lister, alive>>

(* dio_rdd of a file with these bytes.  A file that is too short is left   *)
(* in memory as it is; a text of no bytes asks for more than there can be. *)
Wanted == IF ascii THEN size - 1 ELSE size
TooShort(body) == Wanted < 0 \/ Len(body) < Wanted

Loaded(body) ==
    [i \in 1 .. SizeCap |->
        IF TooShort(body)
          THEN IF i <= Len(body) THEN body[i] ELSE mem[i]
        ELSE IF i <= Wanted
          THEN IF ascii THEN ToMemory(body[i]) ELSE body[i]
        ELSE IF ascii /\ i = size THEN NUL ELSE mem[i]]

(* Nothing can be read from a file that is open for writing.               *)
Readable == IF open.mode = "r" THEN disk[open.file].body ELSE <<>>

ReadData ==
    /\ alive
    /\ open' = Null
    /\ IF open = Null
         THEN ret' = 12 /\ UNCHANGED mem
         ELSE /\ ret' = IF TooShort(Readable) THEN 1 ELSE 0
              /\ mem' = Loaded(Readable)
    /\ UNCHANGED <<files, ascii, fib, size, lister, alive>>
=============================================================================
