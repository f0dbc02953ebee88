--------------------------------- MODULE Fcb ---------------------------------
(***************************************************************************)
(* #FCB (sos_fcb in src/src/trap.c): one entry after the other of the      *)
(* directory of a disk.  The program asks with the drive in #DSK; where    *)
(* the search is, is in #DIRNO and #RETPOI, and the entry goes to the      *)
(* information block.  The search runs over the records of the directory,  *)
(* one step for each.                                                      *)
(***************************************************************************)
EXTENDS Drives

CONSTANTS
    PerRec,         \* SOS_DENTRIES_PER_REC
    DirPos,         \* EM_DIRPS: the first record of the directory
    DirMod,         \* values of the byte #DIRNO
    Low,            \* what may be in the byte at address EM_MXTRK
    Letter,         \* values of #DSK: drives, and
    Reserved, Tape, Bad

ASSUME FcbAssumption ==
    /\ PerRec \in Nat \ {0} /\ DirPos \in Nat /\ DirMod \in Nat \ {0}
    /\ Low \subseteq 0 .. DirMod - 1
    /\ Tape \subseteq Letter /\ Letter \subseteq Unit \cup Reserved \cup Tape \cup Bad
    /\ Unit \cap Reserved = {}

VARIABLES
    dsk,            \* #DSK
    dirno, retpoi,  \* #DIRNO, #RETPOI
    opnfg,          \* %OPNFG
    low,            \* the byte at address EM_MXTRK
    dtbuf,          \* the buffer at EM_DTBUF
    block,          \* the information block
    carry,          \* the last #FCB found nothing
    pc,             \* "scan" while #FCB searches
    from, clean     \* history: where it began, and that all reads so far
                    \* succeeded

search == <<dsk, dirno, retpoi, opnfg, low, dtbuf, block, carry, pc, from, clean>>
vars == <<drives, search>>

(* The first bytes of a directory entry; the others are names.             *)
Free == "free"
End == "end"
Entry == UNION {{s[i] : i \in 0 .. PerRec - 1} : s \in Sector}

TypeOK ==
    /\ DrivesTypeOK
    /\ dsk \in Letter
    /\ dirno \in 0 .. DirMod - 1 /\ retpoi \in 0 .. DirMod - 1
    /\ opnfg \in 0 .. 1 /\ low \in Low
    /\ dtbuf \in Sector /\ block \in Entry
    /\ carry \in BOOLEAN
    /\ pc \in {"idle", "scan"}
    /\ from \in 0 .. DirMod - 1 /\ clean \in BOOLEAN

Init ==
    /\ DrivesInit
    /\ dsk \in Tape                     \* EM_DFDV
    /\ dirno = 0 /\ retpoi = 0 /\ opnfg = 1
    /\ low \in Low
    /\ dtbuf = Zero /\ block = Zero[0]
    /\ carry = FALSE
    /\ pc = "idle"
    /\ from = 0 /\ clean = TRUE

-----------------------------------------------------------------------------
(* The program stores to #DSK and to #DIRNO, and to low memory.            *)
Store ==
    /\ pc = "idle"
    /\ \/ dsk' \in Letter /\ UNCHANGED <<dirno, low>>
       \/ dirno' = 0 /\ UNCHANGED <<dsk, low>>
       \/ low' \in Low /\ UNCHANGED <<dsk, dirno>>
    /\ UNCHANGED <<drives, retpoi, opnfg, dtbuf, block, carry, pc, from, clean>>

(* sos_fcb_common: RETURN goes one entry back, but only when the last call *)
(* found one.                                                              *)
GoesBack(key) == key = "cr" /\ retpoi > 0
OneBack == IF dirno > 0 THEN dirno - 1 ELSE 0

(* devchk_internal fails.                                                  *)
FcbBad ==
    /\ pc = "idle" /\ dsk \in Bad
    /\ opnfg' = 0
    /\ carry' = TRUE
    /\ UNCHANGED <<drives, dsk, dirno, retpoi, low, dtbuf, block, pc, from, clean>>

(* A tape: #DSK becomes the tape of trdvsw_internal, and #RDI is called.   *)
(* The key works on #DIRNO, which is the disks'; the rest is in TapeDir.   *)
FcbTape(key) ==
    /\ pc = "idle" /\ dsk \in Tape
    /\ opnfg' = 0
    /\ dsk' \in Tape
    /\ dirno' = IF GoesBack(key) THEN OneBack ELSE dirno
    /\ carry' \in BOOLEAN /\ block' \in Entry \ {Free, End}
    /\ UNCHANGED <<drives, retpoi, low, dtbuf, pc, from, clean>>

(* The call is over.                                                       *)
Return == pc' = "idle" /\ from' = 0 /\ clean' = TRUE

(* file_not_found and position_reset                                       *)
NotFound(n) ==
    /\ dirno' = n
    /\ retpoi' = 0
    /\ carry' = TRUE
    /\ UNCHANGED block
    /\ Return

(* A disk: the key, and the search from #DIRNO on.                         *)
Fcb(key) ==
    /\ pc = "idle" /\ dsk \in Unit \cup Reserved
    /\ opnfg' = 0
    /\ CASE key = "break" -> NotFound(0)
         [] GoesBack(key) -> NotFound(OneBack)
         [] OTHER -> /\ pc' = "scan" /\ from' = dirno
                     /\ UNCHANGED <<dirno, retpoi, block, carry, clean>>
    /\ UNCHANGED <<drives, dsk, low, dtbuf>>

(* A bug it could have: the byte grows past its last value.                *)
IncDirnoFree == dirno + 1

(* A bug it could have: it stays at the end, as a position of #RDI might.  *)
IncDirnoStays == IF dirno + 1 < DirMod THEN dirno + 1 ELSE dirno

(* The byte #DIRNO behind the last entry it can count is 0 again.          *)
IncDirno == (dirno + 1) % DirMod

(* A bug it could have: the place in the record is taken after the step.   *)
InRecordAfter == IncDirno % PerRec

InRecord == dirno % PerRec

(* One turn of the loop: the record is read, unless the drive is one of    *)
(* the reserved letters, and whether it was read is not asked.             *)
ReadRecord(buf, good) ==
    IF dsk \in Reserved
      THEN buf = dtbuf /\ ~good /\ UNCHANGED drives
      ELSE \E works \in BOOLEAN :
             LET r == DRead(dirno \div PerRec + DirPos, 1, dsk, works)
             IN /\ buf = IF r.data = <<>> THEN dtbuf ELSE r.data[1]
                /\ good = (r.rc = 0)
                /\ Becomes(r.dev)
                /\ rc' = r.rc
                /\ UNCHANGED <<cwd, mem, wrote>>

Scan ==
    /\ pc = "scan"
    /\ \E buf \in Sector, good \in BOOLEAN :
         LET entry == buf[InRecord]
         IN /\ ReadRecord(buf, good)
            /\ dtbuf' = buf
            /\ IF entry = End \/ IncDirno = low
                 THEN NotFound(0) /\ UNCHANGED opnfg
                 ELSE /\ dirno' = IncDirno /\ retpoi' = IncDirno
                      /\ IF entry = Free
                           THEN /\ clean' = (clean /\ good)
                                /\ UNCHANGED <<block, carry, pc, opnfg, from>>
                           ELSE /\ block' = entry /\ carry' = FALSE
                                /\ opnfg' = 1
                                /\ Return
    /\ UNCHANGED <<dsk, low>>

(* Between calls the program uses the drives, and the user the monitor.    *)
Other(A) == pc = "idle" /\ A /\ UNCHANGED search

Monitor ==
    \/ \E u \in Unit, n \in Name : Mount(u, n)
    \/ \E u \in Unit : Unmount(u)
    \/ \E d \in Dir : Chdir(d)

Transfer ==
    \E u \in Unit, at \in Records :
        \/ \E n \in 1 .. MaxCount : Read(u, at, n)
        \/ \E n \in 1 .. MaxCount, data \in [1 .. MaxCount -> Sector] :
              Write(u, at, SubSeq(data, 1, n))

Restart ==
    /\ \E d \in Dir : Kill(d)
    /\ dsk' \in Tape
    /\ dirno' = 0 /\ retpoi' = 0 /\ opnfg' = 1
    /\ low' \in Low
    /\ dtbuf' = Zero /\ block' = Zero[0]
    /\ carry' = FALSE
    /\ pc' = "idle"
    /\ from' = 0 /\ clean' = TRUE

FcbCall ==
    \/ Store \/ FcbBad \/ Scan
    \/ \E key \in {"none", "cr", "break"} : FcbTape(key) \/ Fcb(key)

Next == FcbCall \/ Other(Monitor) \/ Other(Transfer) \/ Restart

(* The emulator runs.                                                      *)
Spec == Init /\ [][Next]_vars /\ WF_vars(Scan)

-----------------------------------------------------------------------------
(* The directory of image f as one list of entries.                        *)
Listed(f) == {k \in 0 .. DirMod - 1 : k \div PerRec + DirPos < Len(wrote[f])}
EntryAt(f, k) == wrote[f][k \div PerRec + DirPos + 1][k % PerRec]

(* The search from entry `from' stops at the first of these, going around  *)
(* where the byte #DIRNO does.                                             *)
Ends(f) == {k \in Listed(f) : EntryAt(f, k) = End \/ (k + 1) % DirMod = low}
Used(f) == {k \in Listed(f) : EntryAt(f, k) # Free} \ Ends(f)
Distance(k) == (k + DirMod - from) % DirMod
First(S) == CHOOSE k \in S : \A j \in S : Distance(k) <= Distance(j)

(* On a disk that can be read #FCB finds the next entry of the directory,  *)
(* wherever the records end and whatever was deleted, and the next call    *)
(* goes on behind it; at the end of the directory it goes back to the      *)
(* start.                                                                  *)
FoundNext ==
    Scan /\ pc' = "idle" /\ clean /\ rc' = 0 /\ ~shared' /\ dsk \in Unit =>
        LET f == fp'[dsk].file
            k == First(Ends(f) \cup Used(f))
        IN IF k \in Ends(f) THEN carry' /\ dirno' = 0
           ELSE ~carry' /\ block' = EntryAt(f, k) /\ dirno' = (k + 1) % DirMod

FindsNextEntry == [][FoundNext]_vars

(* While #FCB searches a disk that it can read it has passed the entries   *)
(* from where it began, all of them free, and not come around.             *)
Passed ==
    pc = "scan" /\ clean /\ ~shared /\ dsk \in Unit /\ dirno # from =>
        /\ fp[dsk] # Closed
        /\ \A k \in 0 .. DirMod - 1 : Distance(k) < Distance(dirno) =>
              LET f == fp[dsk].file
              IN k \in Listed(f) \ (Used(f) \cup Ends(f))
=============================================================================
