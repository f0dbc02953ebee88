-------------------------------- MODULE Drives --------------------------------
(***************************************************************************)
(* The disk drives of the emulator: #DREAD and #DWRITE (src/src/trap.c) on *)
(* image files of the host (src/src/dio.c), and the monitor's commands     *)
(* mount and chdir (src/src/sos.c).  An image is opened when its drive is  *)
(* first used, under the name the drive has then and in the directory the  *)
(* emulator is in then, and what was written to it last waits in the       *)
(* buffer of its stream until the next seek or the close.                  *)
(***************************************************************************)
EXTENDS Integers, Sequences, FiniteSetsExt

CONSTANTS
    Unit,           \* the drives
    Dir, Name,      \* directories of the host, and names of images
    Image, NoImage, \* the image files; what a name may not lead to
    Lead,           \* [Dir -> [Name -> image]]
    Default,        \* [Unit -> Name], from DIO_IMAGEPAT
    Unnamed,        \* dio_disk is NULL
    Closed,         \* imagefp is NULL
    Sector,         \* contents of a record of 256 bytes
    Zero,           \* what the host puts between the end and a write
    MaxRec,         \* bound: records of an image
    MaxCount        \* bound: records in a call

ASSUME DriveAssumption ==
    /\ Lead \in [Dir -> [Name -> Image \cup {NoImage}]]
    /\ Default \in [Unit -> Name]
    /\ Unnamed \notin Name /\ NoImage \notin Image
    /\ Zero \in Sector
    /\ MaxRec \in Nat /\ MaxCount \in Nat \ {0}

VARIABLES
    host,           \* what the image files hold
    cwd,            \* the directory the emulator is in
    disk,           \* dio_disk: the names of the drives
    fp,             \* imagefp: streams, and the last write in their buffer
    mem,            \* the memory the program reads to and writes from
    rc,             \* what the last call answered: 1 I/O error, 2 offline
    wrote,          \* history: the images with all that calls wrote to them,
    shared          \* and whether two drives have had one of them open

drives == <<host, cwd, disk, fp, mem, rc, wrote, shared>>

Records == 0 .. MaxRec - 1
NoWrite == <<>>
Stream == [file : Image,
           pend : {NoWrite} \cup
                  [at : Records, data : UNION {[1 .. n -> Sector] : n \in 1 .. MaxCount}]]

ASSUME ClosedAssumption == Closed \notin Stream

DrivesTypeOK ==
    /\ host \in [Image -> Seq(Sector)] /\ wrote \in [Image -> Seq(Sector)]
    /\ \A f \in Image : Len(host[f]) <= MaxRec
    /\ cwd \in Dir
    /\ disk \in [Unit -> Name \cup {Unnamed}]
    /\ fp \in [Unit -> {Closed} \cup Stream]
    /\ mem \in [1 .. MaxCount -> Sector]
    /\ rc \in 0 .. 2
    /\ shared \in BOOLEAN

-----------------------------------------------------------------------------
(* A file with data written over it from a record on.                      *)
Over(content, at, data) ==
    [i \in 1 .. Max({Len(content), at + Len(data)}) |->
        IF i > at /\ i <= at + Len(data) THEN data[i - at]
        ELSE IF i <= Len(content) THEN content[i] ELSE Zero]

(* The drives as one value, on which the functions of dio.c work.          *)
Now == [host |-> host, disk |-> disk, fp |-> fp]

Flushed(d, u) ==
    LET s == d.fp[u]
    IN IF s.pend = NoWrite THEN d
       ELSE [host |-> [d.host EXCEPT ![s.file] = Over(@, s.pend.at, s.pend.data)],
             disk |-> d.disk,
             fp |-> [d.fp EXCEPT ![u] = [file |-> s.file, pend |-> NoWrite]]]

(* A bug it could have: the stream is forgotten and not closed.            *)
Forgotten(d, u) == [d EXCEPT !.fp[u] = Closed]

(* dio_diclose *)
DiClose(d, u) ==
    IF d.fp[u] = Closed THEN d ELSE [Flushed(d, u) EXCEPT !.fp[u] = Closed]

(* dio_diopen *)
DiOpen(d, u) ==
    LET name == IF d.disk[u] = Unnamed THEN Default[u] ELSE d.disk[u]
        file == Lead[cwd][name]
    IN IF d.fp[u] # Closed THEN d
       ELSE [host |-> d.host,
             disk |-> [d.disk EXCEPT ![u] = name],
             fp |-> [d.fp EXCEPT ![u] = IF file = NoImage THEN Closed
                                        ELSE [file |-> file, pend |-> NoWrite]]]

(* dio_dread of n records.  The host may fail to read them; what it did    *)
(* read has gone to memory.                                                *)
DRead(at, n, u, works) ==
    LET d == DiOpen(Now, u)
        s == Flushed(d, u)
        content == s.host[s.fp[u].file]
        good == works /\ at + n <= Len(content)
    IN IF d.fp[u] = Closed THEN [dev |-> d, rc |-> 2, data |-> <<>>]
       ELSE [dev |-> IF good THEN s ELSE DiClose(s, u),
             rc |-> IF good THEN 0 ELSE 1,
             data |-> IF works THEN SubSeq(content, at + 1, Min({at + n, Len(content)}))
                      ELSE <<>>]

(* A bug it could have: no seek, so what waits in the buffer is replaced.  *)
DWriteUnsought(at, data, u) ==
    LET d == DiOpen(Now, u)
    IN IF d.fp[u] = Closed THEN [dev |-> d, rc |-> 2]
       ELSE [dev |-> [d EXCEPT !.fp[u].pend = [at |-> at, data |-> data]], rc |-> 0]

(* dio_dwrite: the records go to the buffer.                               *)
DWrite(at, data, u) ==
    LET d == DiOpen(Now, u)
        s == [file |-> d.fp[u].file, pend |-> [at |-> at, data |-> data]]
    IN IF d.fp[u] = Closed THEN [dev |-> d, rc |-> 2]
       ELSE [dev |-> [Flushed(d, u) EXCEPT !.fp[u] = s], rc |-> 0]

Becomes(d) ==
    /\ host' = d.host /\ disk' = d.disk /\ fp' = d.fp
    /\ shared' = (shared \/ \E u, v \in Unit :
                     /\ u # v /\ d.fp[u] # Closed /\ d.fp[v] # Closed
                     /\ d.fp[u].file = d.fp[v].file)

-----------------------------------------------------------------------------
(* The memory with data read to it.                                        *)
Loaded(data) ==
    [i \in DOMAIN mem |-> IF i <= Len(data) THEN data[i] ELSE mem[i]]

(* sos_dread *)
Read(u, at, n) ==
    \E works \in BOOLEAN :
        LET r == DRead(at, n, u, works)
        IN /\ Becomes(r.dev)
           /\ mem' = Loaded(r.data)
           /\ rc' = r.rc
           /\ UNCHANGED <<cwd, wrote>>

(* sos_dwrite of what the program has put into its memory.                 *)
Write(u, at, data) ==
    LET r == DWrite(at, data, u)
    IN /\ at + Len(data) <= MaxRec
       /\ Becomes(r.dev)
       /\ mem' = Loaded(data)
       /\ rc' = r.rc
       /\ wrote' = IF r.rc = 2 THEN wrote
                   ELSE [wrote EXCEPT ![r.dev.fp[u].file] = Over(@, at, data)]
       /\ UNCHANGED cwd

(* mount <drive> <filename>: the file must be there.                       *)
Mount(u, name) ==
    /\ Lead[cwd][name] # NoImage
    /\ Becomes([DiClose(Now, u) EXCEPT !.disk[u] = name])
    /\ UNCHANGED <<cwd, mem, rc, wrote>>

(* mount <drive> *)
Unmount(u) ==
    /\ disk[u] # Unnamed
    /\ Becomes([DiClose(Now, u) EXCEPT !.disk[u] = Unnamed])
    /\ UNCHANGED <<cwd, mem, rc, wrote>>

(* chdir: the open images stay.                                            *)
Chdir(d) ==
    /\ cwd' = d
    /\ UNCHANGED <<host, disk, fp, mem, rc, wrote, shared>>

(* The process is killed and started again: what waits in a buffer is      *)
(* lost or not.                                                            *)
Kill(start) ==
    /\ \E lost \in SUBSET {u \in Unit : fp[u] # Closed /\ fp[u].pend # NoWrite} :
          host' = [f \in Image |->
              LET ends == {u \in Unit \ lost : fp[u] # Closed /\ fp[u].file = f}
              IN IF ends = {} THEN host[f]
                 ELSE Flushed(Now, CHOOSE u \in ends : TRUE).host[f]]
    /\ wrote' = host'
    /\ cwd' = start
    /\ disk' = [u \in Unit |-> Unnamed]
    /\ fp' = [u \in Unit |-> Closed]
    /\ mem' = [i \in DOMAIN mem |-> Zero]
    /\ rc' = 0 /\ shared' = FALSE

DrivesInit ==
    /\ host \in [Image -> UNION {[1 .. n -> Sector] : n \in 0 .. MaxRec}]
    /\ wrote = host
    /\ cwd \in Dir
    /\ disk = [u \in Unit |-> Unnamed]
    /\ fp = [u \in Unit |-> Closed]
    /\ mem = [i \in 1 .. MaxCount |-> Zero]
    /\ rc = 0
    /\ shared = FALSE

-----------------------------------------------------------------------------
Using(f) == {u \in Unit : fp[u] # Closed /\ fp[u].file = f}

(* An image that no drive has open holds all that was written to it, by    *)
(* whichever drives, through whatever mounts and errors.                   *)
SavedIsOnHost ==
    ~shared => \A f \in Image : Using(f) = {} => host[f] = wrote[f]

(* A program reads what was last written to the image, by itself or by an  *)
(* earlier program, as long as no two drives use one image.                *)
ReadsLatest ==
    [][\A u \in Unit, at \in Records, n \in 1 .. MaxCount :
         \/ shared' \/ rc' # 0 \/ fp'[u] = Closed
         \/ \A i \in 1 .. n : /\ at + i <= Len(wrote[fp'[u].file])
                             /\ mem'[i] = wrote[fp'[u].file][at + i]
         \/ ~Read(u, at, n)]_drives
=============================================================================
