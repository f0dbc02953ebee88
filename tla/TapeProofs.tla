----------------------------- MODULE TapeProofs -----------------------------
(***************************************************************************)
(* Proofs about TapeDir, for any names, any conversion between them, any   *)
(* number of tapes and any sizes: the types, the conversion mode of the    *)
(* file that is open, what a directory search finds, and that TapeDir      *)
(* implements Cassette.                                                    *)
(***************************************************************************)
EXTENDS TapeSeek, SequenceTheorems, FiniteSetTheorems, WellFoundedInduction, TLAPS

(* A file of the disk is a file.                                           *)
LEMMA FileOf == ASSUME TypeOK, NEW u \in Unix, disk[u] # Null
                PROVE disk[u] \in File
BY DEF TypeOK

(* The size a file is given fits the word at #SIZE.                        *)
LEMMA SizeType == ASSUME NEW f \in File PROVE FileSize(f) \in 0 .. SizeCap
<1> DEFINE n == Len(f.body) + (IF f.attr = "asc" THEN 1 ELSE 0)
<1>1. n \in Nat
  BY DEF File
<1>2. SizeCap \in Nat
  BY DataAssumption
<1>3. FileSize(f) = IF n <= SizeCap THEN n ELSE SizeCap
  BY DEF FileSize, Smaller
<1> HIDE DEF n
<1> QED
  BY <1>1, <1>2, <1>3

(* dio_wdd writes a sequence of bytes.                                     *)
LEMMA WrittenType == ASSUME TypeOK PROVE Written(mem, size) \in Seq(Datum)
<1>1. /\ size \in 0 .. SizeCap /\ SizeCap \in Nat /\ SizeCap > 0
      /\ mem \in [1 .. SizeCap -> Datum]
  BY DataAssumption DEF TypeOK, Memory
<1>2. CR \in Datum /\ LF \in Datum /\ NUL \in Datum
  BY DataAssumption
<1>3. \A i \in 1 .. size : mem[i] \in Datum /\ ToDisk(mem[i]) \in Datum
  BY <1>1, <1>2 DEF ToDisk
<1>4. [i \in 1 .. size |-> mem[i]] \in Seq(Datum)
  BY <1>1, <1>3
<1>5. [i \in 1 .. size - 1 |-> ToDisk(mem[i])] \in Seq(Datum)
  <2> DEFINE k == IF size = 0 THEN 0 ELSE size - 1
  <2>1. k \in Nat /\ 1 .. size - 1 = 1 .. k /\ 1 .. k \subseteq 1 .. size
    BY <1>1
  <2>2. [i \in 1 .. k |-> ToDisk(mem[i])] \in Seq(Datum)
    <3> HIDE DEF k
    <3> QED
      BY <1>3, <2>1
  <2>3. [i \in 1 .. size - 1 |-> ToDisk(mem[i])]
          = [i \in 1 .. k |-> ToDisk(mem[i])]
    <3> HIDE DEF k
    <3> QED
      BY <2>1
  <2> QED
    BY <2>2, <2>3
<1>6. mem[IF size = 0 THEN 1 ELSE size] \in Datum
  BY <1>1
<1> DEFINE last == mem[IF size = 0 THEN 1 ELSE size]
<1>7. (IF last = NUL THEN <<>> ELSE <<last>>) \in Seq(Datum)
  BY <1>6
<1> QED
  BY <1>4, <1>5, <1>7 DEF Written

(* dio_rdd leaves bytes in memory.                                         *)
LEMMA LoadedType == ASSUME TypeOK, NEW body \in Seq(Datum)
                    PROVE Loaded(body) \in Memory
<1>1. /\ size \in 0 .. SizeCap /\ SizeCap \in Nat
      /\ mem \in [1 .. SizeCap -> Datum]
  BY DataAssumption DEF TypeOK, Memory
<1>2. CR \in Datum /\ NUL \in Datum
  BY DataAssumption
<1>3. Len(body) \in Nat /\ \A i \in 1 .. Len(body) : body[i] \in Datum
  OBVIOUS
<1> SUFFICES ASSUME NEW i \in 1 .. SizeCap
             PROVE Loaded(body)[i] \in Datum
  BY DEF Loaded, Memory
<1>4. i \in Nat /\ i >= 1 /\ mem[i] \in Datum
  BY <1>1
<1>5. CASE TooShort(body)
  BY <1>3, <1>4, <1>5 DEF Loaded
<1>6. CASE ~TooShort(body)
  <2>1. Wanted \in Int
    BY <1>1 DEF Wanted
  <2>2. i <= Wanted => body[i] \in Datum
    BY <1>3, <1>4, <1>6, <2>1 DEF TooShort
  <2> QED
    BY <1>2, <1>4, <1>6, <2>2 DEF Loaded, ToMemory
<1> QED
  BY <1>5, <1>6

-----------------------------------------------------------------------------
(* The file of a name in the information block is a file of the host.      *)
LEMMA NameType == ASSUME TypeOK PROVE Stou[fib.name] \in Unix
BY NameAssumption DEF TypeOK

(* A file that opens is a file of the disk, and a handle to it is one.     *)
LEMMA OpensType == ASSUME TypeOK, NEW u \in Unix, Opens(u)
                   PROVE disk[u] \in File /\ disk[u] # Null
BY DEF TypeOK, Opens, Exists

(* dio_wopen keeps the invariant: it sets the mode to the attribute it     *)
(* gives the file.                                                         *)
LEMMA WriteOpenInv == OpenInv /\ WriteOpen => OpenInv'
<1> SUFFICES ASSUME OpenInv, WriteOpen PROVE OpenInv'
  OBVIOUS
<1> DEFINE u == Stou[fib.name]
<1>1. TypeOK /\ u \in Unix
  BY NameType DEF OpenInv
<1>2. CASE u \in Locked
  BY <1>1, <1>2 DEF OpenInv, WriteOpen, TypeOK, ModeMatches, program, Memory
<1>3. CASE u \notin Locked
  <2>1. /\ open' = [file |-> u, mode |-> "w"]
        /\ ascii' = (fib.attr = "asc")
        /\ disk' = [disk EXCEPT ![u] = [attr |-> fib.attr, body |-> <<>>]]
        /\ ret' = 0
        /\ UNCHANGED <<fib, size, mem, dircurrent, dirno, alive>>
    BY <1>3 DEF WriteOpen, program
  <2>2. [attr |-> fib.attr, body |-> <<>>] \in File
    BY <1>1 DEF TypeOK, File
  <2>3. dir' \in Seq(Entry) /\ stream' \in Seq(Entry) \cup {Null}
    <3>1. dir \in Seq(Entry) /\ (stream # Null => stream \in Seq(Entry))
      BY <1>1 DEF TypeOK
    <3>2. u \in Entry
      BY <1>1 DEF Entry
    <3>3. \/ dir' = dir /\ stream' = stream
          \/ dir' = Append(dir, u) /\ stream' = stream
          \/ dir' = Append(dir, u) /\ stream # Null /\ stream' = Append(stream, u)
      BY <1>3 DEF WriteOpen
    <3>4. \A s \in Seq(Entry) : Append(s, u) \in Seq(Entry)
      BY <3>2
    <3>5. dir' \in Seq(Entry)
      BY <3>1, <3>3, <3>4
    <3>6. stream' = stream \/ (stream # Null /\ stream' = Append(stream, u))
      BY <3>3
    <3>7. CASE stream = Null
      BY <3>5, <3>6, <3>7
    <3>8. CASE stream # Null
      BY <3>1, <3>4, <3>5, <3>6, <3>8
    <3> QED
      BY <3>7, <3>8
  <2>4. TypeOK'
    BY <1>1, <2>1, <2>2, <2>3 DEF TypeOK, Handle, Memory
  <2>5. disk'[u] = [attr |-> fib.attr, body |-> <<>>] /\ open'.file = u
    BY <1>1, <2>1 DEF TypeOK
  <2>6. disk'[u] # Null
    BY <2>2, <2>5, NameAssumption
  <2> QED
    BY <2>1, <2>4, <2>5, <2>6 DEF OpenInv, ModeMatches
<1> QED
  BY <1>2, <1>3

(* dio_ropen with what its callers store: the mode is the attribute of the *)
(* file that is left open.                                                 *)
LEMMA ReadInfoInv ==
    ASSUME TypeOK, NEW u \in Unix, NEW b \in BOOLEAN,
           ReadInfo(u), ascii' = Mode(u, b), UNCHANGED disk
    PROVE /\ open' \in Handle \cup {Null} /\ ascii' \in BOOLEAN
          /\ size' \in 0 .. SizeCap
          /\ open' # Null => disk'[open'.file] # Null
          /\ ModeMatches'
<1>1. CASE Opens(u)
  <2>1. disk[u] \in File /\ disk[u] # Null
    BY <1>1, OpensType
  <2>2. open' = [file |-> u, mode |-> "r"] /\ size' = FileSize(disk[u])
    BY <1>1 DEF ReadInfo
  <2>3. ascii' = (disk[u].attr = "asc")
    BY <1>1 DEF Mode
  <2> QED
    BY <2>1, <2>2, <2>3, SizeType DEF Handle, ModeMatches
<1>2. CASE ~Opens(u)
  BY <1>2 DEF ReadInfo, Mode, TypeOK, ModeMatches
<1> QED
  BY <1>1, <1>2

(* sos_tropn keeps the invariant.                                          *)
LEMMA ReadOpenInv == OpenInv /\ ReadOpen => OpenInv'
<1> SUFFICES ASSUME OpenInv, ReadOpen PROVE OpenInv'
  OBVIOUS
<1> DEFINE u == Stou[fib.name]
<1>1. TypeOK /\ u \in Unix
  BY NameType DEF OpenInv
<1>2. /\ ReadInfo(u) /\ ascii' = Mode(u, ascii)
      /\ fib' = IF Opens(u) THEN [fib EXCEPT !.attr = disk[u].attr] ELSE fib
      /\ ret' = IF Opens(u) THEN 0 ELSE 8
      /\ UNCHANGED <<disk, dir, mem, stream, dircurrent, dirno, alive>>
  BY DEF ReadOpen, files, lister
<1>3. /\ open' \in Handle \cup {Null} /\ ascii' \in BOOLEAN
      /\ size' \in 0 .. SizeCap
      /\ open' # Null => disk'[open'.file] # Null
      /\ ModeMatches'
  <2>1. ascii \in BOOLEAN
    BY <1>1 DEF TypeOK
  <2> QED
    BY <1>1, <1>2, <2>1, ReadInfoInv
<1>4. fib' \in [name : Sos, attr : Attr]
  <2>1. Opens(u) => disk[u].attr \in Attr
    BY <1>1, OpensType DEF File
  <2> QED
    BY <1>1, <1>2, <2>1 DEF TypeOK
<1>5. TypeOK'
  <2> HIDE DEF u
  <2> QED
    BY <1>1, <1>2, <1>3, <1>4 DEF TypeOK, Memory
<1> QED
  BY <1>3, <1>5 DEF OpenInv

(* dio_wdd keeps the invariant.                                            *)
LEMMA WriteDataInv == OpenInv /\ WriteData => OpenInv'
<1> SUFFICES ASSUME OpenInv, WriteData PROVE OpenInv'
  OBVIOUS
<1>1. /\ open' = Null /\ ret' \in {0, 1, 8, 12}
      /\ UNCHANGED <<dir, ascii, fib, size, mem, stream, dircurrent, dirno, alive>>
  BY DEF WriteData, program, lister
<1>2. disk' \in [Unix -> File \cup {Null}]
  <2>1. CASE open # Null /\ open.mode = "w"
    <3>1. open.file \in Unix /\ disk[open.file] \in File
      BY <2>1 DEF OpenInv, TypeOK, Handle
    <3>2. Written(mem, size) \in Seq(Datum)
      BY WrittenType DEF OpenInv
    <3>3. disk' = [disk EXCEPT ![open.file].body = Written(mem, size)]
      BY <2>1 DEF WriteData
    <3>4. [disk[open.file] EXCEPT !.body = Written(mem, size)] \in File
      BY <3>1, <3>2 DEF File
    <3> QED
      BY <3>1, <3>3, <3>4 DEF OpenInv, TypeOK
  <2>2. CASE open = Null \/ open.mode # "w"
    BY <2>2 DEF OpenInv, TypeOK, WriteData
  <2> QED
    BY <2>1, <2>2
<1> QED
  BY <1>1, <1>2 DEF OpenInv, TypeOK, ModeMatches, Memory

(* dio_rdd keeps the invariant.                                            *)
LEMMA ReadDataInv == OpenInv /\ ReadData => OpenInv'
<1> SUFFICES ASSUME OpenInv, ReadData PROVE OpenInv'
  OBVIOUS
<1>1. /\ open' = Null /\ ret' \in {0, 1, 8, 12}
      /\ mem' = mem \/ (open # Null /\ mem' = Loaded(Readable))
      /\ UNCHANGED <<disk, dir, ascii, fib, size, stream, dircurrent, dirno, alive>>
  BY DEF ReadData, files, lister
<1>2. mem' \in Memory
  <2>1. CASE mem' = mem
    BY <2>1 DEF OpenInv, TypeOK
  <2>2. CASE open # Null /\ mem' = Loaded(Readable)
    <3>1. Readable \in Seq(Datum)
      BY <2>2 DEF OpenInv, TypeOK, Handle, File, Readable
    <3> QED
      BY <2>2, <3>1, LoadedType DEF OpenInv
  <2> QED
    BY <1>1, <2>1, <2>2
<1> QED
  BY <1>1, <1>2 DEF OpenInv, TypeOK, ModeMatches

-----------------------------------------------------------------------------
(* The directory.                                                          *)

(* A set of positions that is not empty has a first one.                   *)
LEMMA MinExists ==
    ASSUME NEW S, S \subseteq Nat, S # {}
    PROVE \E i \in S : \A j \in S : i <= j
<1> DEFINE R == OpToRel(<, Nat)
<1>1. \A n, m \in Nat : n < m => <<n, m>> \in R
  BY DEF OpToRel
<1>2. IsWellFoundedOn(R, Nat)
  BY NatLessThanWellFounded
<1> HIDE DEF R
<1>3. PICK i \in S : \A j \in S : ~(<<j, i>> \in R)
  BY <1>2, WFMin
<1>4. \A j \in S : ~(j < i)
  BY <1>1, <1>3
<1> QED
  BY <1>4

(* dio_dopen leaves a stream of entries, or none, and finds a file of the  *)
(* host, if any.                                                           *)
LEMMA NextFileType ==
    ASSUME NEW d \in Nat, NEW rest \in Seq(Entry), NEW cur \in Nat \cup {-1}
    PROVE LET o == NextFile(d, rest, cur)
          IN /\ o.entry \in Unix \cup {"end"}
             /\ o.stream \in Seq(Entry) \cup {Null}
             /\ o.cur \in Nat \cup {-1}
<1> DEFINE real == {k \in DOMAIN rest : rest[k] \notin Dot}
           k == CHOOSE i \in real : \A j \in real : i <= j
<1>1. DOMAIN rest = 1 .. Len(rest) /\ Len(rest) \in Nat
  OBVIOUS
<1>2. CASE real = {}
  BY <1>2 DEF NextFile, Outcome
<1>3. CASE real # {}
  <2>1. k \in real
    <3>1. real \subseteq Nat
      BY <1>1
    <3>2. \E i \in real : \A j \in real : i <= j
      BY <1>3, <3>1, MinExists
    <3> QED
      BY <3>2
  <2>2. k \in 1 .. Len(rest) /\ rest[k] \in Unix
    BY <1>1, <2>1 DEF Entry
  <2>3. SubSeq(rest, k + 1, Len(rest)) \in Seq(Entry)
    <3>1. \A i, j \in Nat : i >= 1 /\ j <= Len(rest)
             => SubSeq(rest, i, j) \in Seq(Entry)
      BY SubSeqProperties
    <3> HIDE DEF k
    <3>2. k + 1 \in Nat /\ k + 1 >= 1
      BY <1>1, <2>2
    <3> QED
      BY <1>1, <3>1, <3>2
  <2>4. NextFile(d, rest, cur)
          = Outcome(rest[k], SubSeq(rest, k + 1, Len(rest)), d + 1)
    BY <1>3, Zenon DEF NextFile
  <2> HIDE DEF k
  <2> QED
    BY <2>2, <2>3, <2>4 DEF Outcome
<1> QED
  BY <1>2, <1>3

(* dio_dopen as a whole; it may also fault.                                *)
LEMMA DirOpenType ==
    ASSUME TypeOK, NEW d \in Nat
    PROVE /\ DirOpen(d).entry \in Unix \cup {"end", "fault"}
          /\ DirOpen(d).stream \in Seq(Entry) \cup {Null}
          /\ DirOpen(d).cur \in Nat \cup {-1}
<1> DEFINE rest == IF d = 0 THEN dir ELSE stream
           cur == IF d = 0 THEN 0 ELSE dircurrent
<1>1. /\ rest \in Seq(Entry) \cup {Null}
      /\ cur \in Nat \cup {-1}
  BY DEF TypeOK
<1>2. DirOpen(d) =
        IF rest = Null THEN Outcome("fault", Null, cur)
        ELSE IF d = cur THEN NextFile(d, rest, cur)
        ELSE IF Len(rest) < d THEN Outcome("end", Null, cur)
        ELSE NextFile(d, SubSeq(rest, d + 1, Len(rest)), cur)
  BY Zenon DEF DirOpen
<1> HIDE DEF rest, cur
<1>3. CASE rest = Null
  BY <1>1, <1>2, <1>3 DEF Outcome
<1>4. CASE rest # Null
  <2>1. rest \in Seq(Entry) /\ Len(rest) \in Nat
    BY <1>1, <1>4
  <2>2. Len(rest) >= d => SubSeq(rest, d + 1, Len(rest)) \in Seq(Entry)
    BY <2>1, SubSeqProperties
  <2>3. CASE d = cur
    BY <1>1, <1>2, <1>4, <2>1, <2>3, NextFileType
  <2>4. CASE d # cur /\ Len(rest) < d
    BY <1>1, <1>2, <1>4, <2>4 DEF Outcome
  <2>5. CASE d # cur /\ ~(Len(rest) < d)
    <3> DEFINE tail == SubSeq(rest, d + 1, Len(rest))
    <3>1. DirOpen(d) = NextFile(d, tail, cur)
      BY <1>2, <1>4, <2>5
    <3>2. tail \in Seq(Entry)
      BY <2>1, <2>2, <2>5
    <3> HIDE DEF tail
    <3> QED
      BY <1>1, <3>1, <3>2, NextFileType
  <2> QED
    BY <2>3, <2>4, <2>5
<1> QED
  BY <1>3, <1>4

(* #RDI keeps the invariant, whatever the key and whatever it finds.       *)
LEMMA RdiInv == ASSUME OpenInv, NEW t \in Deck, Rdi(t) PROVE OpenInv'
<1> USE DEF files, lister, program
<1>1. CASE RdiBreak(t)
  BY <1>1, DataAssumption DEF OpenInv, RdiBreak, Rewound, TypeOK, ModeMatches, Memory
<1>2. CASE RdiReturn(t)
  BY <1>2 DEF OpenInv, RdiReturn, TypeOK, ModeMatches, Memory
<1>3. CASE RdiNoDirectory(t)
  BY <1>3 DEF OpenInv, RdiNoDirectory, TypeOK, ModeMatches, Memory
<1>4. CASE RdiRead(t)
  <2> DEFINE o == DirOpen(dirno[t])
  <2>1. dirno[t] \in 0 .. MaxDirno /\ MaxDirno \in Nat
    BY DataAssumption DEF OpenInv, TypeOK
  <2>2. /\ o.entry \in Unix \cup {"end", "fault"}
        /\ o.stream \in Seq(Entry) \cup {Null}
        /\ o.cur \in Nat \cup {-1}
    BY <2>1, DirOpenType DEF OpenInv
  <2>3. stream' = o.stream /\ dircurrent' = o.cur /\ UNCHANGED <<disk, dir>>
    BY <1>4 DEF RdiRead
  <2>4. CASE o.entry = "fault"
    <3>1. alive' = FALSE /\ UNCHANGED <<open, ascii, fib, size, mem, dirno, ret>>
      BY <1>4, <2>4 DEF RdiRead
    <3> HIDE DEF o
    <3> QED
      BY <2>2, <2>3, <3>1 DEF OpenInv, TypeOK, ModeMatches, Memory
  <2>5. CASE o.entry = "end"
    <3>1. /\ dirno' = Rewound(t) /\ ret' = 8
          /\ UNCHANGED <<open, ascii, fib, size, mem, alive>>
      BY <1>4, <2>5 DEF RdiRead
    <3> HIDE DEF o
    <3> QED
      BY <2>1, <2>2, <2>3, <3>1 DEF OpenInv, Rewound, TypeOK, ModeMatches, Memory
  <2>6. CASE o.entry \notin {"end", "fault"}
    <3>1. RdiFound(t, o.entry) /\ o.entry \in Unix
      BY <1>4, <2>2, <2>6 DEF RdiRead
    <3> HIDE DEF o
    <3> DEFINE e == o.entry
               u == Stou[Utos[e]]
    <3>2. u \in Unix /\ Utos[e] \in Sos
      BY <3>1, NameAssumption
    <3>3. /\ ReadInfo(u) /\ ascii' = Mode(u, Mode(e, ascii))
          /\ fib' = [name |-> Utos[e],
                     attr |-> IF Opens(u) THEN disk[u].attr ELSE fib.attr]
          /\ dirno' = [dirno EXCEPT ![t] = IF @ < MaxDirno THEN @ + 1 ELSE 0]
          /\ ret' = 0 /\ UNCHANGED <<mem, alive>>
      BY <3>1 DEF RdiFound, Found
    <3>4. Mode(e, ascii) \in BOOLEAN
      BY DEF Mode, OpenInv, TypeOK
    <3>5. /\ open' \in Handle \cup {Null} /\ ascii' \in BOOLEAN
          /\ size' \in 0 .. SizeCap
          /\ open' # Null => disk'[open'.file] # Null
          /\ ModeMatches'
      BY <2>3, <3>2, <3>3, <3>4, ReadInfoInv DEF OpenInv
    <3>6. (IF Opens(u) THEN disk[u].attr ELSE fib.attr) \in Attr
      BY <3>2, OpensType DEF OpenInv, TypeOK, File
    <3>7. fib' \in [name : Sos, attr : Attr]
      BY <3>2, <3>3, <3>6
    <3>8. dirno' \in [Deck -> 0 .. MaxDirno]
      BY <2>1, <3>3 DEF OpenInv, TypeOK
    <3> HIDE DEF e, u
    <3>9. TypeOK'
      BY <2>2, <2>3, <3>3, <3>5, <3>7, <3>8 DEF OpenInv, TypeOK, Memory
    <3> QED
      BY <3>5, <3>9 DEF OpenInv
  <2> QED
    BY <2>4, <2>5, <2>6
<1> QED
  BY <1>1, <1>2, <1>3, <1>4 DEF Rdi

(* #DIR keeps the invariant.                                               *)
LEMMA TdirInv == OpenInv /\ Tdir => OpenInv'
<1> SUFFICES ASSUME OpenInv, Tdir PROVE OpenInv'
  OBVIOUS
<1> DEFINE real == {i \in DOMAIN dir : dir[i] \notin Dot}
           seen == {i \in real : Opens(dir[i])}
           last == CHOOSE i \in seen : \A j \in seen : j <= i
<1>1. Cardinality(real) \in Nat
  <2>1. IsFiniteSet(1 .. Len(dir)) /\ real \subseteq 1 .. Len(dir)
    BY FS_Interval DEF OpenInv, TypeOK
  <2> QED
    BY <2>1, FS_Subset, FS_CardinalityType
<1>2. /\ open' = IF real = {} THEN open ELSE Null
      /\ real = {} => seen = {}
      /\ ascii' = IF seen = {} THEN ascii ELSE disk[dir[last]].attr = "asc"
      /\ stream' = Null /\ ret' = 0
      /\ dircurrent' \in {Cardinality(real), Cardinality(real) + 1}
      /\ UNCHANGED <<disk, dir, fib, size, mem, dirno, alive>>
  BY DEF Tdir, files, program
<1> HIDE DEF real, seen, last
<1>3. ascii' \in BOOLEAN
  <2>1. CASE seen = {}
    BY <1>2, <2>1 DEF OpenInv, TypeOK
  <2>2. CASE seen # {}
    BY <1>2, <2>2
  <2> QED
    BY <2>1, <2>2
<1>4. open' \in Handle \cup {Null} /\ dircurrent' \in Nat \cup {-1}
  BY <1>1, <1>2 DEF OpenInv, TypeOK
<1>5. TypeOK'
  BY <1>2, <1>3, <1>4 DEF OpenInv, TypeOK, Memory
<1> QED
  BY <1>2, <1>5 DEF OpenInv, ModeMatches

-----------------------------------------------------------------------------
(* The rest, and the specification.                                        *)

(* Whatever the program does between its calls keeps the invariant.        *)
LEMMA ProgramInv == OpenInv /\ Program => OpenInv'
<1> SUFFICES ASSUME OpenInv, Program PROVE OpenInv'
  OBVIOUS
<1> USE DEF files, lister
<1>1. ASSUME NEW n \in Sos, NEW a \in Attr, FileCall(n, a) PROVE OpenInv'
  BY <1>1 DEF OpenInv, FileCall, TypeOK, ModeMatches, Memory
<1>2. ASSUME NEW i \in 1 .. SizeCap, NEW c \in Datum, Store(i, c)
      PROVE OpenInv'
  BY <1>2 DEF OpenInv, Store, TypeOK, ModeMatches, Memory
<1>3. ASSUME NEW n \in 0 .. SizeCap, SetSize(n) PROVE OpenInv'
  BY <1>3 DEF OpenInv, SetSize, TypeOK, ModeMatches, Memory
<1> QED
  BY <1>1, <1>2, <1>3 DEF Program

(* A directory that cannot be opened leaves #DIR with nothing to list.     *)
LEMMA TdirNoDirectoryInv == OpenInv /\ TdirNoDirectory => OpenInv'
BY DEF OpenInv, TdirNoDirectory, TypeOK, ModeMatches, files, program, Memory

(* The end of the emulator and its next start: nothing is open.            *)
LEMMA RestartInv == OpenInv /\ Restart => OpenInv'
<1> SUFFICES ASSUME OpenInv, Restart PROVE OpenInv'
  OBVIOUS
<1>1. disk' \in [Unix -> File \cup {Null}]
  <2>1. CASE UNCHANGED disk
    BY <2>1 DEF OpenInv, TypeOK
  <2>2. CASE /\ open # Null
             /\ disk' = [disk EXCEPT ![open.file] = [attr |-> "asc", body |-> <<>>]]
    <3>1. [attr |-> "asc", body |-> <<>>] \in File
      BY DEF File, Attr
    <3> QED
      BY <2>2, <3>1 DEF OpenInv, TypeOK
  <2> QED
    BY <2>1, <2>2 DEF Restart
<1>2. [i \in 1 .. SizeCap |-> NUL] \in Memory
  BY DataAssumption DEF Memory
<1>3. /\ open' = Null /\ ascii' = FALSE /\ fib' = [fib EXCEPT !.attr = "bin"]
      /\ size' = 0 /\ mem' = [i \in 1 .. SizeCap |-> NUL]
      /\ ret' = 0 /\ stream' = Null /\ dircurrent' = -1
      /\ dirno' = [t \in Deck |-> 0] /\ alive' = TRUE /\ dir' = dir
  BY DEF Restart
<1>4. SizeCap \in Nat /\ MaxDirno \in Nat
  BY DataAssumption
<1>5. TypeOK'
  <2>1. fib' \in [name : Sos, attr : Attr]
    BY <1>3 DEF OpenInv, TypeOK, Attr
  <2>2. mem' \in Memory /\ size' \in 0 .. SizeCap
    BY <1>2, <1>3, <1>4
  <2>3. dirno' \in [Deck -> 0 .. MaxDirno]
    BY <1>3, <1>4
  <2>4. ascii' \in BOOLEAN /\ alive' \in BOOLEAN /\ ret' \in {0, 1, 8, 12}
    BY <1>3
  <2>5. /\ dir' \in Seq(Entry) /\ open' \in Handle \cup {Null}
        /\ stream' \in Seq(Entry) \cup {Null} /\ dircurrent' \in Nat \cup {-1}
    BY <1>3 DEF OpenInv, TypeOK
  <2> QED
    BY <1>1, <2>1, <2>2, <2>3, <2>4, <2>5 DEF TypeOK
<1> QED
  BY <1>3, <1>5 DEF OpenInv, ModeMatches

(* A started emulator, on any host, has nothing open.                      *)
LEMMA InitInv == Init => OpenInv
<1> SUFFICES ASSUME Init PROVE OpenInv
  OBVIOUS
<1>1. disk \in [Unix -> File \cup {Null}]
  <2>1. \A n \in 0 .. SizeCap : [1 .. n -> Datum] \subseteq Seq(Datum)
    BY DataAssumption
  <2> QED
    BY <2>1 DEF Init, File, Attr
<1>2. dir \in Seq(Entry)
  <2>1. /\ dir \in [1 .. Cardinality(Exists \cup Dot) -> Exists \cup Dot]
        /\ Exists \cup Dot \subseteq Entry
    BY DEF Init, Exists, Entry
  <2>2. Cardinality(Exists \cup Dot) \in Nat
    <3>1. IsFiniteSet(Unix \cup Dot) /\ Exists \cup Dot \subseteq Unix \cup Dot
      BY NameAssumption DEF Exists
    <3> QED
      BY <3>1, FS_Subset, FS_CardinalityType
  <2>3. \A n \in Nat, S \in SUBSET Entry : [1 .. n -> S] \subseteq Seq(Entry)
    OBVIOUS
  <2> QED
    BY <2>1, <2>2, <2>3, Zenon
<1>3. NUL \in Datum /\ SizeCap \in Nat /\ MaxDirno \in Nat
  BY DataAssumption
<1>4. fib \in [name : Sos, attr : Attr]
  BY DEF Init, Started, Attr
<1>5. /\ mem \in Memory /\ size \in 0 .. SizeCap
      /\ dirno \in [Deck -> 0 .. MaxDirno]
  BY <1>3 DEF Init, Started, Memory
<1>6. /\ open = Null /\ ascii \in BOOLEAN /\ alive \in BOOLEAN
      /\ ret \in {0, 1, 8, 12} /\ stream = Null /\ dircurrent = -1
  BY DEF Init, Started
<1> QED
  BY <1>1, <1>2, <1>4, <1>5, <1>6 DEF OpenInv, TypeOK, ModeMatches

(* Every step keeps the invariant.                                         *)
LEMMA StepInv == OpenInv /\ [Next]_vars => OpenInv'
<1> SUFFICES ASSUME OpenInv, [Next]_vars PROVE OpenInv'
  OBVIOUS
<1>1. CASE Program
  BY <1>1, ProgramInv
<1>2. CASE Transfer
  BY <1>2, WriteOpenInv, ReadOpenInv, WriteDataInv, ReadDataInv DEF Transfer
<1>3. CASE \E t \in Deck : Rdi(t)
  BY <1>3, RdiInv
<1>4. CASE Tdir \/ TdirNoDirectory
  BY <1>4, TdirInv, TdirNoDirectoryInv
<1>5. CASE Restart
  BY <1>5, RestartInv
<1>6. CASE UNCHANGED vars
  BY <1>6 DEF OpenInv, TypeOK, ModeMatches, vars, program, lister, Memory
<1> QED
  BY <1>1, <1>2, <1>3, <1>4, <1>5, <1>6 DEF Next

(* The types are right, what is open is a file of the disk, and the mode   *)
(* is that file's, in every reachable state.                               *)
THEOREM OpenFileInvariant == Spec => []OpenInv
BY InitInv, StepInv, PTL DEF Spec

(* The types are right in every reachable state.                           *)
THEOREM TapeTypes == Spec => []TypeOK
<1>1. OpenInv => TypeOK
  BY DEF OpenInv
<1> QED
  BY <1>1, OpenFileInvariant, PTL

(* A transfer converts line ends if and only if the open file is a text,   *)
(* whatever was listed, opened and closed before.                          *)
THEOREM ModeIsTheFiles == Spec => []ModeMatches
<1>1. OpenInv => ModeMatches
  BY DEF OpenInv
<1> QED
  BY <1>1, OpenFileInvariant, PTL

-----------------------------------------------------------------------------
(* One tape alone.                                                         *)

(* dio_dopen for the request the stream is at, or for the first: it finds  *)
(* an entry and stands behind it, or it says there are no more.            *)
LEMMA DirOpenInOrder ==
    ASSUME TypeOK, NEW d \in Nat,
           d # 0 => stream # Null /\ dircurrent = d
    PROVE \/ DirOpen(d).entry = "end"
          \/ /\ DirOpen(d).entry \in Unix
             /\ DirOpen(d).stream # Null
             /\ DirOpen(d).cur = d + 1
<1> DEFINE rest == IF d = 0 THEN dir ELSE stream
<1>1. rest \in Seq(Entry) /\ rest # Null
  BY NameAssumption DEF TypeOK
<1>2. DirOpen(d) = NextFile(d, rest, d)
  <2>1. CASE d = 0
    BY <1>1, <2>1 DEF DirOpen
  <2>2. CASE d # 0
    BY <1>1, <2>2 DEF DirOpen
  <2> QED
    BY <2>1, <2>2
<1> HIDE DEF rest
<1> DEFINE real == {k \in DOMAIN rest : rest[k] \notin Dot}
           k == CHOOSE i \in real : \A j \in real : i <= j
<1>3. CASE real = {}
  BY <1>2, <1>3 DEF NextFile, Outcome
<1>4. CASE real # {}
  <2>1. NextFile(d, rest, d)
          = Outcome(rest[k], SubSeq(rest, k + 1, Len(rest)), d + 1)
    BY <1>4, Zenon DEF NextFile
  <2>2. rest[k] \in Unix /\ SubSeq(rest, k + 1, Len(rest)) \in Seq(Entry)
    <3>1. real \subseteq 1 .. Len(rest) /\ Len(rest) \in Nat
      BY <1>1
    <3>2. real \subseteq Nat
      BY <3>1
    <3>3. \E i \in real : \A j \in real : i <= j
      BY <1>4, <3>2, MinExists
    <3>4. k \in real
      BY <3>3
    <3> HIDE DEF k, real
    <3>5. k + 1 \in Nat /\ k + 1 >= 1
      BY <3>2, <3>4
    <3>6. SubSeq(rest, k + 1, Len(rest)) \in Seq(Entry)
      BY <1>1, <3>1, <3>5, SubSeqProperties
    <3>7. rest[k] \in Entry /\ rest[k] \notin Dot
      BY <1>1, <3>1, <3>4 DEF real
    <3> QED
      BY <3>6, <3>7 DEF Entry
  <2> DEFINE e == rest[k]
             tail == SubSeq(rest, k + 1, Len(rest))
  <2>3. DirOpen(d) = Outcome(e, tail, d + 1)
    BY <1>2, <2>1, Zenon
  <2>4. e \in Unix /\ tail # Null
    BY <2>2, NameAssumption
  <2> HIDE DEF e, tail
  <2> QED
    BY <2>3, <2>4 DEF Outcome
<1> QED
  BY <1>3, <1>4

(* With one tape, and #DIR not used, every step keeps the stream and the   *)
(* tape together.                                                          *)
LEMMA SoloStep ==
    ASSUME NEW t, Deck = {t}, SoloInv, SeekNext \/ UNCHANGED vars
    PROVE SoloInv'
<1>1. OpenInv'
  BY StepInv DEF SoloInv, SeekNext, Request, Next
<1>2. alive /\ dirno[t] \in 0 .. MaxDirno /\ MaxDirno \in Nat
  BY DataAssumption DEF SoloInv, OpenInv, TypeOK
<1>3. dirno[t] # 0 => stream # Null /\ dircurrent = dirno[t]
  BY DEF SoloInv
<1>4. DOMAIN dirno = Deck
  BY DEF SoloInv, OpenInv, TypeOK
<1> SUFFICES /\ alive'
             /\ dirno'[t] # 0 => stream' # Null /\ dircurrent' = dirno'[t]
  BY <1>1 DEF SoloInv
<1> USE DEF files, lister, program
<1>5. CASE Program \/ UNCHANGED vars
  BY <1>2, <1>3, <1>5 DEF Program, FileCall, Store, SetSize, vars
<1>6. CASE WriteOpen
  <2>1. /\ UNCHANGED <<dircurrent, dirno, alive>>
        /\ stream' = stream \/ (stream # Null /\ stream' = Append(stream, Stou[fib.name]))
    BY <1>6 DEF WriteOpen
  <2>2. stream # Null => Append(stream, Stou[fib.name]) \in Seq(Entry)
    BY NameType DEF SoloInv, OpenInv, TypeOK, Entry
  <2>3. stream # Null => stream' # Null
    BY <2>1, <2>2, NameAssumption
  <2> QED
    BY <1>2, <1>3, <2>1, <2>3
<1>7. CASE ReadOpen \/ WriteData \/ ReadData
  BY <1>2, <1>3, <1>7 DEF ReadOpen, WriteData, ReadData
<1>8. CASE RdiBreak(t)
  BY <1>2, <1>4, <1>8 DEF RdiBreak, Rewound
<1>9. CASE RdiReturn(t)
  BY <1>2, <1>3, <1>9 DEF RdiReturn
<1>10. CASE RdiNoDirectory(t)
  BY <1>2, <1>10 DEF RdiNoDirectory
<1>11. CASE RdiRead(t)
  <2> DEFINE o == DirOpen(dirno[t])
  <2>1. \/ o.entry = "end"
        \/ o.entry \in Unix /\ o.stream # Null /\ o.cur = dirno[t] + 1
    BY <1>2, <1>3, DirOpenInOrder DEF SoloInv, OpenInv
  <2>2. stream' = o.stream /\ dircurrent' = o.cur
    BY <1>11 DEF RdiRead
  <2>3. CASE o.entry = "end"
    <3>1. dirno' = Rewound(t) /\ UNCHANGED alive
      BY <1>11, <2>3 DEF RdiRead
    <3> QED
      BY <1>2, <1>4, <3>1 DEF Rewound
  <2>4. CASE o.entry \in Unix /\ o.stream # Null /\ o.cur = dirno[t] + 1
    <3>1. o.entry \notin {"end", "fault"}
      BY <2>4, NameAssumption
    <3>2. RdiFound(t, o.entry)
      BY <1>11, <3>1 DEF RdiRead
    <3>3. dirno' = Found(t) /\ UNCHANGED alive
      BY <3>2 DEF RdiFound
    <3>4. dirno'[t] = IF dirno[t] < MaxDirno THEN dirno[t] + 1 ELSE 0
      BY <1>4, <3>3 DEF Found
    <3> HIDE DEF o
    <3> QED
      BY <1>2, <2>2, <2>4, <3>3, <3>4
  <2> QED
    BY <2>1, <2>3, <2>4
<1>12. CASE Restart
  BY <1>12 DEF Restart
<1> QED
  BY <1>5, <1>6, <1>7, <1>8, <1>9, <1>10, <1>11, <1>12
  DEF SeekNext, Request, Transfer, Rdi

-----------------------------------------------------------------------------
(* What one tape alone finds.                                              *)

(* The files among the first entries are a finite set.                     *)
LEMMA FilesType ==
    ASSUME NEW n \in Nat
    PROVE  /\ Files(n) \in Nat /\ Files(0) = 0
           /\ IsFiniteSet({i \in 1 .. n : dir[i] \notin Dot})
<1>1. IsFiniteSet({i \in 1 .. n : dir[i] \notin Dot})
  <2>1. IsFiniteSet(1 .. n) /\ {i \in 1 .. n : dir[i] \notin Dot} \subseteq 1 .. n
    BY FS_Interval
  <2> QED
    BY <2>1, FS_Subset
<1>2. {i \in 1 .. 0 : dir[i] \notin Dot} = {}
  OBVIOUS
<1> QED
  BY <1>1, <1>2, FS_CardinalityType, FS_EmptySet DEF Files

(* Where the entries in between are "." and "..", one file more.           *)
LEMMA FilesNext ==
    ASSUME NEW k \in Nat, NEW j \in Nat, k < j, dir[j] \notin Dot,
           \A i \in k + 1 .. j - 1 : dir[i] \in Dot
    PROVE  Files(j) = Files(k) + 1
<1> DEFINE F(n) == {i \in 1 .. n : dir[i] \notin Dot}
<1>1. F(j) = F(k) \cup {j} /\ j \notin F(k)
  OBVIOUS
<1>2. IsFiniteSet(F(k))
  BY FilesType
<1>3. Cardinality(F(k) \cup {j}) = Cardinality(F(k)) + 1
  BY <1>1, <1>2, FS_AddElement
<1> QED
  BY <1>1, <1>3 DEF Files

(* Where all that follows is "." and "..", no more of them.                *)
LEMMA FilesSame ==
    ASSUME NEW k \in Nat, NEW n \in Nat, k <= n,
           \A i \in k + 1 .. n : dir[i] \in Dot
    PROVE  Files(n) = Files(k)
<1>1. {i \in 1 .. n : dir[i] \notin Dot} = {i \in 1 .. k : dir[i] \notin Dot}
  OBVIOUS
<1> QED
  BY <1>1 DEF Files

(* A file of the directory is found behind the first k entries, and the    *)
(* rest of the first n is still ahead.                                     *)
Finds(o, k, n) ==
    \E j \in k + 1 .. n :
        /\ dir[j] \notin Dot /\ Files(j) = Files(k) + 1
        /\ o.entry = dir[j] /\ o.entry \in Unix
        /\ n - j <= Len(o.stream)
        /\ \A i \in 1 .. n - j : o.stream[i] = dir[j + i]

(* dio_dopen for the request the stream is at: of the first n entries of   *)
(* the directory it finds the next file, and stands behind it.             *)
LEMMA NextFileFinds ==
    ASSUME TypeOK, NEW d \in Nat, NEW rest \in Seq(Entry),
           NEW n \in Nat, n <= Len(dir), d < Files(n),
           NEW k \in 0 .. n, Files(k) = d, n - k <= Len(rest),
           \A i \in 1 .. n - k : rest[i] = dir[k + i]
    PROVE  Finds(NextFile(d, rest, d), k, n)
<1> DEFINE real == {i \in DOMAIN rest : rest[i] \notin Dot}
           m == CHOOSE i \in real : \A j \in real : i <= j
<1>1. dir \in Seq(Entry) /\ Len(dir) \in Nat /\ Len(rest) \in Nat
      /\ k \in Nat /\ k <= n
  BY DEF TypeOK
<1>2. PICK r \in k + 1 .. n : dir[r] \notin Dot
  <2>1. CASE \A i \in k + 1 .. n : dir[i] \in Dot
    BY <1>1, <2>1, FilesSame
  <2> QED
    BY <2>1
<1>3. r - k \in real
  <2>1. r - k \in 1 .. n - k /\ k + (r - k) = r
    BY <1>1, <1>2
  <2> QED
    BY <1>1, <1>2, <2>1
<1>4. real \subseteq Nat /\ real \subseteq 1 .. Len(rest)
  BY <1>1
<1>5. m \in real /\ \A j \in real : m <= j
  <2>1. \E i \in real : \A j \in real : i <= j
    BY <1>3, <1>4, MinExists
  <2> QED
    BY <2>1
<1>6. m \in 1 .. n - k
  <2>1. m <= r - k
    BY <1>3, <1>5
  <2> HIDE DEF m, real
  <2> QED
    BY <1>1, <1>2, <1>4, <1>5, <2>1
<1>7. /\ rest[m] \in Unix
      /\ \A i \in 1 .. m - 1 : rest[i] \in Dot
  <2>1. rest[m] \in Entry /\ rest[m] \notin Dot
    BY <1>4, <1>5
  <2>2. ASSUME NEW i \in 1 .. m - 1 PROVE rest[i] \in Dot
    <3>1. i \notin real
      <4> HIDE DEF m, real
      <4> QED
        BY <1>4, <1>5
    <3>2. i \in DOMAIN rest
      <4> HIDE DEF m
      <4> QED
        BY <1>1, <1>4, <1>5
    <3> QED
      BY <3>1, <3>2
  <2> QED
    BY <2>1, <2>2 DEF Entry
<1>8. NextFile(d, rest, d) = Outcome(rest[m], SubSeq(rest, m + 1, Len(rest)), d + 1)
  <2>1. real # {}
    BY <1>3
  <2> QED
    BY <2>1, Zenon DEF NextFile
<1> HIDE DEF m, real
<1> DEFINE tail == SubSeq(rest, m + 1, Len(rest))
           j == k + m
<1>9. j \in k + 1 .. n /\ j \in Nat /\ k < j /\ n - j <= Len(rest) - m
  BY <1>1, <1>6
<1>10. dir[j] = rest[m] /\ dir[j] \notin Dot
  BY <1>5, <1>6 DEF real
<1>11. Files(j) = d + 1
  <2>1. ASSUME NEW i \in k + 1 .. j - 1 PROVE dir[i] \in Dot
    <3>1. i - k \in 1 .. m - 1 /\ i - k \in 1 .. n - k /\ k + (i - k) = i
      BY <1>1, <1>6
    <3>2. rest[i - k] = dir[k + (i - k)]
      BY <3>1
    <3> QED
      BY <1>7, <3>1, <3>2
  <2> HIDE DEF j
  <2> QED
    BY <1>1, <1>9, <1>10, <2>1, FilesNext
<1>12. /\ Len(tail) = Len(rest) - m
       /\ \A i \in 1 .. Len(rest) - m : tail[i] = rest[m + i]
  <2>1. m \in 1 .. Len(rest) /\ m \in Nat
    BY <1>4, <1>5
  <2>2. \A i \in m + 1 .. Len(rest) : rest[i] \in Entry
    BY <1>1, <2>1
  <2>3. /\ Len(tail) = IF m + 1 <= Len(rest) THEN Len(rest) - (m + 1) + 1 ELSE 0
        /\ \A i \in 1 .. Len(rest) - (m + 1) + 1 : tail[i] = rest[m + 1 + i - 1]
    BY <1>1, <2>1, <2>2, SubSeqProperties
  <2> HIDE DEF tail
  <2>4. Len(tail) = Len(rest) - m
    BY <1>1, <2>1, <2>3
  <2>5. ASSUME NEW i \in 1 .. Len(rest) - m PROVE tail[i] = rest[m + i]
    <3>1. i \in 1 .. Len(rest) - (m + 1) + 1 /\ m + 1 + i - 1 = m + i
      BY <1>1, <2>1
    <3>2. tail[i] = rest[m + 1 + i - 1]
      BY <2>3, <3>1
    <3> QED
      BY <3>1, <3>2
  <2> QED
    BY <2>4, <2>5
<1> HIDE DEF tail
<1>13. ASSUME NEW i \in 1 .. n - j PROVE tail[i] = dir[j + i]
  <2>1. i \in 1 .. Len(rest) - m /\ m + i \in 1 .. n - k /\ k + (m + i) = j + i
    BY <1>1, <1>6, <1>9
  <2> QED
    BY <1>12, <2>1
<1>14. /\ NextFile(d, rest, d).entry = rest[m]
       /\ NextFile(d, rest, d).stream = tail
  <2>1. NextFile(d, rest, d) = Outcome(rest[m], tail, d + 1)
    BY <1>8, Zenon DEF tail
  <2> QED
    BY <2>1 DEF Outcome
<1> HIDE DEF j
<1> QED
  BY <1>7, <1>9, <1>10, <1>11, <1>12, <1>13, <1>14 DEF Finds

(* #RDI does not end the emulator, and if it asks for a file that was      *)
(* there when the stream was opened it finds that one and stands behind it.*)
LEMMA RequestFinds ==
    ASSUME NEW t, Deck = {t}, SeekInv, RdiRead(t)
    PROVE  LET there == IF dirno[t] = 0 THEN Len(dir) ELSE had
           IN /\ there \in Nat /\ alive'
              /\ dirno[t] < Files(there) =>
                    /\ ret' = 0 /\ there <= Len(dir)
                    /\ dirno' = Found(t)
                    /\ \E k \in 1 .. there :
                          /\ dir[k] \notin Dot
                          /\ Files(k) = dirno[t] + 1
                          /\ fib'.name = Utos[dir[k]]
                          /\ there - k <= Len(stream')
                          /\ \A i \in 1 .. there - k : stream'[i] = dir[k + i]
              /\ dirno' = Found(t) \/ dirno'[t] = 0
<1> DEFINE d == dirno[t]
           there == IF d = 0 THEN Len(dir) ELSE had
           rest == IF d = 0 THEN dir ELSE stream
           o == DirOpen(d)
<1>1. TypeOK /\ alive /\ d \in Nat /\ d \in 0 .. MaxDirno /\ MaxDirno \in Nat
      /\ (d # 0 => stream # Null /\ dircurrent = d)
  BY DataAssumption DEF SeekInv, SoloInv, OpenInv, TypeOK
<1>2. DOMAIN dirno = Deck /\ dir \in Seq(Entry) /\ Len(dir) \in Nat
      /\ (stream # Null => stream \in Seq(Entry))
  BY <1>1 DEF TypeOK
<1>3. there \in Nat
  BY <1>2 DEF SeekInv
<1>4. o.entry = "end" \/ o.entry \in Unix
  BY <1>1, DirOpenInOrder
<1>5. o.entry \in Unix => RdiFound(t, o.entry)
  BY NameAssumption DEF RdiRead
<1>6. stream' = o.stream
  BY DEF RdiRead
<1>7. alive' /\ (dirno' = Found(t) \/ dirno'[t] = 0)
  <2>1. CASE o.entry = "end"
    <3>1. dirno' = Rewound(t) /\ UNCHANGED alive
      BY <2>1 DEF RdiRead
    <3> QED
      BY <1>1, <1>2, <3>1 DEF Rewound
  <2>2. CASE o.entry \in Unix
    BY <1>1, <1>5, <2>2 DEF RdiFound
  <2> QED
    BY <1>4, <2>1, <2>2
<1>8. ASSUME d < Files(there)
      PROVE  /\ there <= Len(dir) /\ ret' = 0 /\ dirno' = Found(t)
             /\ \E k \in 1 .. there :
                    /\ dir[k] \notin Dot /\ Files(k) = d + 1
                    /\ fib'.name = Utos[dir[k]]
                    /\ there - k <= Len(stream')
                    /\ \A i \in 1 .. there - k : stream'[i] = dir[k + i]
  <2>1. o = NextFile(d, rest, d) /\ rest \in Seq(Entry)
    <3>1. dir # Null
      BY <1>2, NameAssumption
    <3>2. CASE d = 0
      BY <1>2, <3>1, <3>2 DEF DirOpen
    <3>3. CASE d # 0
      BY <1>1, <1>2, <3>3 DEF DirOpen
    <3> QED
      BY <3>2, <3>3
  <2>2. /\ there <= Len(dir)
        /\ \E k \in 0 .. there :
              /\ Files(k) = d /\ there - k <= Len(rest)
              /\ \A i \in 1 .. there - k : rest[i] = dir[k + i]
    <3>1. CASE d = 0
      <4>1. /\ 0 \in 0 .. there /\ Files(0) = d /\ there - 0 <= Len(rest)
            /\ \A i \in 1 .. there - 0 : rest[i] = dir[0 + i]
        <5>1. there = Len(dir) /\ rest = dir
          BY <3>1
        <5>2. Files(0) = 0
          BY FilesType
        <5>3. \A i \in 1 .. Len(dir) - 0 : 0 + i = i
          BY <1>2
        <5> HIDE DEF there, rest, d
        <5>4. \A i \in 1 .. there - 0 : rest[i] = dir[0 + i]
          BY <5>1, <5>3
        <5> QED
          BY <1>2, <3>1, <5>1, <5>2, <5>4
      <4> QED
        BY <1>2, <3>1, <4>1
    <3>2. CASE d # 0
      <4>1. /\ there = had /\ rest = stream /\ had <= Len(dir)
            /\ \/ Files(had) <= d
               \/ \E k \in 0 .. had :
                     /\ Files(k) = d
                     /\ had - k <= Len(stream)
                     /\ \A i \in 1 .. had - k : stream[i] = dir[k + i]
        BY <3>2 DEF SeekInv, InPlace
      <4>2. had \in Nat /\ Files(had) \in Nat
        BY FilesType DEF SeekInv
      <4>3. ~(Files(had) <= d)
        BY <1>1, <1>8, <4>1, <4>2
      <4> HIDE DEF d, there, rest
      <4> QED
        BY <4>1, <4>3
    <3> QED
      BY <3>1, <3>2
  <2>3. PICK k \in 0 .. there :
              /\ Files(k) = d /\ there - k <= Len(rest)
              /\ \A i \in 1 .. there - k : rest[i] = dir[k + i]
    BY <2>2
  <2> HIDE DEF there, rest, d
  <2>4. PICK j \in k + 1 .. there :
              /\ dir[j] \notin Dot /\ Files(j) = d + 1
              /\ o.entry = dir[j] /\ o.entry \in Unix
              /\ there - j <= Len(o.stream)
              /\ \A i \in 1 .. there - j : o.stream[i] = dir[j + i]
    <3>1. /\ d \in Nat /\ TypeOK /\ there \in Nat /\ there <= Len(dir)
          /\ rest \in Seq(Entry) /\ d < Files(there)
          /\ k \in 0 .. there /\ Files(k) = d /\ there - k <= Len(rest)
          /\ \A i \in 1 .. there - k : rest[i] = dir[k + i]
      BY <1>1, <1>3, <1>8, <2>1, <2>2, <2>3
    <3>2. Finds(NextFile(d, rest, d), k, there)
      BY <3>1, NextFileFinds
    <3>3. Finds(o, k, there)
      BY <2>1, <3>2
    <3> HIDE DEF o
    <3> QED
      BY <2>3, <3>3 DEF Finds
  <2>5. ret' = 0 /\ fib'.name = Utos[dir[j]] /\ dirno' = Found(t)
    BY <1>5, <2>4 DEF RdiFound
  <2>6. j \in 1 .. there
    BY <1>3
  <2> QED
    BY <1>6, <2>2, <2>4, <2>5, <2>6
<1> QED
  BY <1>3, <1>7, <1>8

(* A file that is created comes last in the directory, and in the stream   *)
(* if it gets there: the stream still stands where it stood.               *)
LEMMA CreatedLast ==
    ASSUME NEW t \in Deck, SeekInv, WriteOpen, had' = had
    PROVE  InPlace(t)'
<1> DEFINE u == Stou[fib.name]
<1>1. /\ TypeOK /\ InPlace(t) /\ had \in Nat /\ dirno' = dirno
      /\ (dirno[t] # 0 => stream # Null)
  BY DEF SeekInv, SoloInv, OpenInv, WriteOpen
<1> SUFFICES ASSUME dirno[t] # 0 PROVE InPlace(t)'
  BY <1>1 DEF InPlace
<1>2. dir \in Seq(Entry) /\ stream \in Seq(Entry) /\ u \in Entry
  BY <1>1, NameType DEF TypeOK, Entry
<1>3. /\ dir' = dir \/ dir' = Append(dir, u)
      /\ stream' = stream \/ stream' = Append(stream, u)
  BY DEF WriteOpen
<1> HIDE DEF u
<1>4. /\ Len(dir) \in Nat /\ Len(dir') \in Nat /\ Len(dir) <= Len(dir')
      /\ \A i \in 1 .. Len(dir) : dir'[i] = dir[i]
  BY <1>2, <1>3
<1>5. /\ Len(stream) \in Nat /\ Len(stream') \in Nat
      /\ Len(stream) <= Len(stream')
      /\ \A i \in 1 .. Len(stream) : stream'[i] = stream[i]
  BY <1>2, <1>3
<1>6. had <= Len(dir)
  BY <1>1 DEF InPlace
<1>7. \A n \in 0 .. had :
          Cardinality({i \in 1 .. n : dir'[i] \notin Dot}) = Files(n)
  <2> SUFFICES ASSUME NEW n \in 0 .. had
               PROVE  {i \in 1 .. n : dir'[i] \notin Dot}
                        = {i \in 1 .. n : dir[i] \notin Dot}
    BY DEF Files
  <2>1. \A i \in 1 .. n : i \in 1 .. Len(dir)
    BY <1>1, <1>4, <1>6
  <2> QED
    BY <1>4, <2>1
<1>8. CASE Files(had) <= dirno[t]
  <2>1. Cardinality({i \in 1 .. had' : dir'[i] \notin Dot}) = Files(had)
    BY <1>1, <1>7
  <2>2. had' <= Len(dir')
    BY <1>1, <1>4, <1>6
  <2> QED
    BY <1>1, <1>8, <2>1, <2>2 DEF InPlace, Files
<1>9. CASE \E k \in 0 .. had :
               /\ Files(k) = dirno[t]
               /\ had - k <= Len(stream)
               /\ \A i \in 1 .. had - k : stream[i] = dir[k + i]
  <2>1. PICK k \in 0 .. had :
               /\ Files(k) = dirno[t]
               /\ had - k <= Len(stream)
               /\ \A i \in 1 .. had - k : stream[i] = dir[k + i]
    BY <1>9
  <2>2. had' <= Len(dir') /\ had' - k <= Len(stream') /\ k \in 0 .. had'
    BY <1>1, <1>4, <1>5, <1>6, <2>1
  <2>3. ASSUME NEW i \in 1 .. had - k PROVE stream'[i] = dir'[k + i]
    <3>1. i \in 1 .. had - k /\ i \in 1 .. Len(stream) /\ k + i \in 1 .. Len(dir)
      BY <1>1, <1>4, <1>5, <1>6, <2>1
    <3> QED
      BY <1>4, <1>5, <2>1, <3>1
  <2>4. Cardinality({i \in 1 .. k : dir'[i] \notin Dot}) = dirno'[t]
    BY <1>1, <1>7, <2>1
  <2> QED
    BY <2>2, <2>3, <2>4 DEF InPlace, Files
<1> QED
  BY <1>1, <1>6, <1>8, <1>9 DEF InPlace

(* A stream, a directory and a tape that stay as they are.                 *)
LEMMA StandsStill ==
    ASSUME NEW t \in Deck, SeekInv, UNCHANGED <<dir, stream, dirno>>,
           dirno[t] # 0 => had' = had
    PROVE  InPlace(t)'
<1>1. InPlace(t)
  BY DEF SeekInv
<1>2. CASE dirno[t] = 0
  BY <1>2 DEF InPlace
<1>3. CASE dirno[t] # 0
  <2>1. UNCHANGED <<dir, stream, dirno, had>>
    BY <1>3
  <2> QED
    BY <1>1, <2>1 DEF InPlace, Files
<1> QED
  BY <1>2, <1>3

(* A request that finds its file leaves the stream behind that.            *)
LEMMA FoundInPlace ==
    ASSUME NEW t, Deck = {t}, SeekInv, RdiRead(t), Request(t)
    PROVE  had' \in Nat /\ InPlace(t)'
<1> DEFINE there == IF dirno[t] = 0 THEN Len(dir) ELSE had
           d == dirno[t]
<1>1. /\ TypeOK /\ had \in Nat /\ d \in Nat /\ MaxDirno \in Nat
      /\ DOMAIN dirno = Deck /\ Len(dir) \in Nat /\ InPlace(t)
  BY DataAssumption DEF SeekInv, SoloInv, OpenInv, TypeOK
<1>2. /\ there \in Nat
      /\ dirno' = Found(t) \/ dirno'[t] = 0
      /\ d < Files(there) =>
            \E k \in 1 .. there :
                  /\ Files(k) = d + 1
                  /\ there - k <= Len(stream')
                  /\ \A i \in 1 .. there - k : stream'[i] = dir[k + i]
  BY RequestFinds
<1>3. had' = there /\ dir' = dir
  BY DEF Request, RdiRead, files
<1>4. dirno'[t] = d + 1 \/ dirno'[t] = 0
  BY <1>1, <1>2 DEF Found
<1>5. there <= Len(dir)
  BY <1>1 DEF InPlace
<1>6. Files(there) \in Nat
  BY <1>2, FilesType
<1> HIDE DEF there
<1> SUFFICES ASSUME dirno'[t] = d + 1 PROVE InPlace(t)'
  BY <1>2, <1>3, <1>4 DEF InPlace
<1>7. CASE d < Files(there)
  <2>1. PICK k \in 1 .. there :
                  /\ Files(k) = d + 1
                  /\ there - k <= Len(stream')
                  /\ \A i \in 1 .. there - k : stream'[i] = dir[k + i]
    BY <1>2, <1>7
  <2>2. k \in 0 .. had' /\ had' <= Len(dir')
        /\ Cardinality({i \in 1 .. k : dir'[i] \notin Dot}) = dirno'[t]
    BY <1>2, <1>3, <1>5, <2>1 DEF Files
  <2>3. had' - k <= Len(stream')
        /\ \A i \in 1 .. had' - k : stream'[i] = dir'[k + i]
    BY <1>3, <2>1
  <2> QED
    BY <2>2, <2>3 DEF InPlace, Files
<1>8. CASE ~(d < Files(there))
  <2>1. Files(there) <= d + 1
    BY <1>1, <1>6, <1>8
  <2>2. Cardinality({i \in 1 .. had' : dir'[i] \notin Dot}) = Files(there)
    BY <1>3 DEF Files
  <2>3. Cardinality({i \in 1 .. had' : dir'[i] \notin Dot}) <= dirno'[t]
    BY <2>1, <2>2
  <2>4. had' <= Len(dir')
    BY <1>3, <1>5
  <2> QED
    BY <2>3, <2>4 DEF InPlace, Files
<1> QED
  BY <1>7, <1>8

(* Every step keeps the stream where the tape's next request is.           *)
LEMMA SeekStep ==
    ASSUME NEW t, Deck = {t}, SeekInv, [SeekNext]_<<vars, had>>
    PROVE  SeekInv'
<1>1. SoloInv'
  <2>1. SeekNext \/ UNCHANGED vars
    OBVIOUS
  <2> QED
    BY <2>1, SoloStep DEF SeekInv
<1>2. TypeOK /\ had \in Nat /\ Len(dir) \in Nat /\ DOMAIN dirno = Deck
  BY DEF SeekInv, SoloInv, OpenInv, TypeOK
<1> SUFFICES had' \in Nat /\ InPlace(t)'
  BY <1>1 DEF SeekInv
<1> USE DEF files, lister, program
<1>3. CASE WriteOpen /\ UNCHANGED had
  BY <1>2, <1>3, CreatedLast
<1>4. CASE (ReadOpen \/ WriteData \/ ReadData \/ Program) /\ UNCHANGED had
  <2>1. UNCHANGED <<dir, stream, dirno, had>>
    BY <1>4 DEF ReadOpen, WriteData, ReadData, Program, FileCall, Store, SetSize
  <2> QED
    BY <1>2, <2>1, StandsStill
<1>5. CASE Restart /\ UNCHANGED had
  BY <1>2, <1>5 DEF Restart, InPlace
<1>6. CASE RdiBreak(t) /\ Request(t)
  BY <1>2, <1>6 DEF RdiBreak, Rewound, Request, InPlace
<1>7. CASE RdiNoDirectory(t) /\ Request(t)
  BY <1>2, <1>7 DEF RdiNoDirectory, Request, InPlace
<1>8. CASE RdiReturn(t) /\ Request(t)
  <2>1. UNCHANGED <<dir, stream, dirno>> /\ had' \in Nat
        /\ (dirno[t] # 0 => had' = had)
    BY <1>2, <1>8 DEF RdiReturn, Request
  <2> QED
    BY <2>1, StandsStill
<1>9. CASE RdiRead(t) /\ Request(t)
  BY <1>9, FoundInPlace
<1>10. CASE UNCHANGED <<vars, had>>
  <2>1. UNCHANGED <<dir, stream, dirno, had>>
    BY <1>10 DEF vars
  <2> QED
    BY <1>2, <2>1, StandsStill
<1> QED
  BY <1>3, <1>4, <1>5, <1>6, <1>7, <1>8, <1>9, <1>10
  DEF SeekNext, Request, Transfer, Rdi

(* With one tape, read by #RDI only, the stream is open where the tape's   *)
(* next request is.                                                        *)
THEOREM SeekInvariant ==
    ASSUME NEW t, Deck = {t}
    PROVE  SeekSpec => []SeekInv
<1>1. SeekInit => SeekInv
  <2> SUFFICES ASSUME SeekInit PROVE SeekInv
    OBVIOUS
  <2>1. OpenInv /\ alive /\ had = 0 /\ \A s \in Deck : dirno[s] = 0
    BY InitInv DEF SeekInit, Init, Started
  <2> QED
    BY <2>1 DEF SeekInv, SoloInv, InPlace
<1>2. SeekInv /\ [SeekNext]_<<vars, had>> => SeekInv'
  BY SeekStep
<1> QED
  BY <1>1, <1>2, PTL DEF SeekSpec

(* So readdir is never given a null pointer.                               *)
THEOREM OneTapeNeverFaults ==
    ASSUME NEW t, Deck = {t}
    PROVE  SeekSpec => []NeverFaults
<1>1. SeekInv => NeverFaults
  BY DEF SeekInv, SoloInv, NeverFaults
<1> QED
  BY <1>1, SeekInvariant, PTL

(* And every request for a file that was there when the stream was opened  *)
(* finds that one, whatever the program creates meanwhile.                 *)
THEOREM RequestsAreReached ==
    ASSUME NEW t, Deck = {t}
    PROVE  SeekSpec => SeekReachesRequest
<1>1. SeekInv => [EachFound]_<<vars, had>>
  <2> SUFFICES ASSUME SeekInv, RdiRead(t)
               PROVE  LET there == IF dirno[t] = 0 THEN Len(dir) ELSE had
                      IN /\ alive'
                         /\ dirno[t] < Files(there) => NextFound(t, there)
    BY DEF EachFound
  <2> QED
    BY RequestFinds, Zenon DEF NextFound
<1> QED
  BY <1>1, SeekInvariant, PTL DEF SeekReachesRequest

-----------------------------------------------------------------------------
(* TapeDir implements Cassette: a program that saves and loads sees a set  *)
(* of recordings, for any files of the host, any names and any sizes, and  *)
(* whatever is listed, opened, closed or killed in between.  First what a  *)
(* recording is made of, then what a save and a load make of it, then one  *)
(* lemma for each call and the step of Cassette it takes.                  *)

(* The image of a file: as long as the size the file is given, the bytes   *)
(* of the body as a load converts them, and the NUL of a text.             *)
LEMMA ImageFacts ==
    ASSUME NEW f \in File
    PROVE  /\ ImageOf(f) \in Seq(Datum)
           /\ Len(ImageOf(f)) = FileSize(f)
           /\ f.attr = "asc" =>
                /\ FileSize(f) \in 1 .. SizeCap
                /\ FileSize(f) - 1 <= Len(f.body)
                /\ ImageOf(f)[FileSize(f)] = NUL
                /\ \A i \in 1 .. FileSize(f) - 1 :
                      ImageOf(f)[i] = ToMemory(f.body[i])
           /\ f.attr # "asc" =>
                /\ FileSize(f) <= Len(f.body)
                /\ \A i \in 1 .. FileSize(f) : ImageOf(f)[i] = f.body[i]
<1> DEFINE b == f.body
           n == Len(b)
<1>1. /\ b \in Seq(Datum) /\ n \in Nat /\ SizeCap \in Nat /\ SizeCap > 0
      /\ \A i \in 1 .. n : b[i] \in Datum
  BY DataAssumption DEF File
<1>2. CR \in Datum /\ NUL \in Datum
  BY DataAssumption
<1>3. CASE f.attr = "asc"
  <2> DEFINE k == Smaller(n, SizeCap - 1)
             front == [i \in 1 .. k |-> IF b[i] = LF THEN CR ELSE b[i]]
  <2>1. k \in Nat /\ k <= n /\ FileSize(f) = k + 1 /\ k + 1 <= SizeCap
    BY <1>1, <1>3 DEF FileSize, Smaller
  <2>2. ImageOf(f) = Append(front, NUL)
    BY <1>3 DEF ImageOf
  <2> HIDE DEF k
  <2>3. front \in Seq(Datum) /\ Len(front) = k
        /\ \A i \in 1 .. k : front[i] = IF b[i] = LF THEN CR ELSE b[i]
    <3>1. \A i \in 1 .. k : (IF b[i] = LF THEN CR ELSE b[i]) \in Datum
      BY <1>1, <1>2, <2>1
    <3> QED
      BY <2>1, <3>1
  <2> HIDE DEF front
  <2>4. /\ Append(front, NUL) \in Seq(Datum)
        /\ Len(Append(front, NUL)) = k + 1
        /\ Append(front, NUL)[k + 1] = NUL
        /\ \A i \in 1 .. k : Append(front, NUL)[i] = front[i]
    BY <1>2, <2>1, <2>3
  <2>5. \A i \in 1 .. FileSize(f) - 1 : ImageOf(f)[i] = ToMemory(b[i])
    BY <2>1, <2>2, <2>3, <2>4 DEF ToMemory
  <2> QED
    BY <1>3, <2>1, <2>2, <2>4, <2>5
<1>4. CASE f.attr # "asc"
  <2> DEFINE k == Smaller(n, SizeCap)
  <2>1. k \in Nat /\ k <= n /\ FileSize(f) = k
    BY <1>1, <1>4 DEF FileSize, Smaller
  <2>2. ImageOf(f) = SubSeq(b, 1, k)
    BY <1>4 DEF ImageOf
  <2> HIDE DEF k
  <2>3. /\ SubSeq(b, 1, k) \in Seq(Datum) /\ Len(SubSeq(b, 1, k)) = k
        /\ \A i \in 1 .. k : SubSeq(b, 1, k)[i] = b[i]
    BY <1>1, <2>1
  <2> QED
    BY <1>4, <2>1, <2>2, <2>3
<1> QED
  BY <1>3, <1>4

(* A sequence of no more bytes than the largest size is an image.          *)
LEMMA ImageType ==
    ASSUME NEW s \in Seq(Datum), Len(s) <= SizeCap
    PROVE  s \in Abstract!Image
<1>1. Len(s) \in 0 .. SizeCap /\ s \in [1 .. Len(s) -> Datum]
  BY DataAssumption
<1> QED
  BY <1>1 DEF Abstract!Image

(* The recording of a file.                                                *)
Recorded(f) == [attr |-> f.attr, image |-> ImageOf(f)]

(* It is a recording, and not the absence of one.                          *)
LEMMA RecordedType ==
    ASSUME NEW f \in File
    PROVE  Recorded(f) \in Abstract!Recording /\ Recorded(f) # Null
<1>1. ImageOf(f) \in Seq(Datum) /\ Len(ImageOf(f)) <= SizeCap
  BY ImageFacts, SizeType
<1>2. f.attr \in Attr
  BY DEF File
<1>3. ImageOf(f) \in Abstract!Image
  BY <1>1, ImageType
<1>4. Recorded(f) \in [attr : Attr, image : Seq(Datum)]
  BY <1>1, <1>2 DEF Recorded
<1> QED
  BY <1>2, <1>3, <1>4, NameAssumption DEF Recorded, Abstract!Recording, Attr

(* A file of the disk is on the shelf as its recording.                    *)
LEMMA RecordingOf ==
    ASSUME TypeOK, NEW u \in Unix
    PROVE  /\ disk[u] # Null => /\ Recordings[u] = Recorded(disk[u])
                                /\ Recordings[u] # Null
           /\ disk[u] = Null => Recordings[u] = Null
<1>1. disk[u] # Null => disk[u] \in File
  BY FileOf
<1> QED
  BY <1>1, RecordedType DEF Recordings, Recorded

(* Another file under a name is another recording under that name.         *)
LEMMA RecordingsChange ==
    ASSUME TypeOK, NEW u \in Unix, NEW f, f \in File,
           disk' = [disk EXCEPT ![u] = f]
    PROVE  Recordings' = [Recordings EXCEPT ![u] = Recorded(f)]
<1>1. disk' = [v \in Unix |-> IF v = u THEN f ELSE disk[v]]
  BY DEF TypeOK
<1>2. f # Null
  BY NameAssumption
<1>3. Recordings' = [v \in Unix |-> IF v = u THEN Recorded(f) ELSE Recordings[v]]
  BY <1>1, <1>2 DEF Recordings, Recorded
<1> QED
  BY <1>3 DEF Recordings

(* No other file, no other recording.                                      *)
LEMMA RecordingsStay == disk' = disk => Recordings' = Recordings
BY DEF Recordings

-----------------------------------------------------------------------------
(* What a save writes.  The front of a text is converted, its last byte is *)
(* written as it is, if it is not NUL: read back, every byte is what it    *)
(* was, but for LF, which is CR.                                           *)
LEMMA WrittenText ==
    ASSUME TypeOK, ascii, size > 0
    PROVE  LET W == Written(mem, size)
               chars == IF mem[size] = NUL THEN size - 1 ELSE size
           IN /\ W \in Seq(Datum) /\ Len(W) = chars
              /\ \A i \in 1 .. chars :
                    ToMemory(W[i]) = IF mem[i] = LF THEN CR ELSE mem[i]
<1> DEFINE W == Written(mem, size)
           front == [i \in 1 .. size - 1 |-> ToDisk(mem[i])]
           last == mem[size]
           tail == IF last = NUL THEN <<>> ELSE <<last>>
<1>1. /\ size \in 1 .. SizeCap /\ SizeCap \in Nat
      /\ \A i \in 1 .. size : mem[i] \in Datum
  BY DataAssumption DEF TypeOK, Memory
<1>2. CR \in Datum /\ LF \in Datum
  BY DataAssumption
<1>3. W = front \o tail
  BY <1>1 DEF Written
<1>4. front \in Seq(Datum) /\ Len(front) = size - 1
      /\ \A i \in 1 .. size - 1 : front[i] = ToDisk(mem[i])
  <2>1. \A i \in 1 .. size - 1 : ToDisk(mem[i]) \in Datum
    BY <1>1, <1>2 DEF ToDisk
  <2>2. size - 1 \in Nat
    BY <1>1
  <2> QED
    BY <2>1, <2>2
<1>5. W \in Seq(Datum)
  BY WrittenType
<1> HIDE DEF front
<1>6. CASE last = NUL
  <2>1. W = front
    BY <1>3, <1>4, <1>6, ConcatEmptySeq
  <2> QED
    BY <1>1, <1>4, <1>5, <1>6, <2>1 DEF ToDisk, ToMemory
<1>7. CASE last # NUL
  <2>1. /\ Len(W) = size
        /\ \A i \in 1 .. size : W[i] = IF i < size THEN front[i] ELSE last
    <3>1. last \in Datum
      BY <1>1
    <3> HIDE DEF last
    <3>2. tail \in Seq(Datum) /\ Len(tail) = 1 /\ tail[1] = last
      BY <1>7, <3>1
    <3> HIDE DEF tail, W
    <3>3. /\ Len(front \o tail) = Len(front) + Len(tail)
          /\ \A i \in 1 .. Len(front) + Len(tail) :
                (front \o tail)[i] = IF i <= Len(front) THEN front[i]
                                     ELSE tail[i - Len(front)]
      BY <1>4, <3>2, ConcatProperties, Zenon
    <3> QED
      BY <1>1, <1>3, <1>4, <3>2, <3>3
  <2> HIDE DEF W
  <2>2. \A i \in 1 .. size :
            ToMemory(W[i]) = IF mem[i] = LF THEN CR ELSE mem[i]
    BY <1>1, <1>4, <2>1 DEF ToDisk, ToMemory
  <2> QED
    BY <1>5, <1>7, <2>1, <2>2 DEF W
<1> QED
  BY <1>6, <1>7

(* The image of what dio_wdd writes is what Cassette records.              *)
LEMMA SavedImage ==
    ASSUME TypeOK, NEW a, a \in Attr, ascii = (a = "asc")
    PROVE  LET f == [attr |-> a, body |-> Written(mem, size)]
           IN /\ f \in File /\ ImageOf(f) \in Abstract!Image
              /\ ~(a = "asc" /\ size = 0) =>
                    ImageOf(f) = Abstract!Recorded(a, mem, size)
<1> DEFINE f == [attr |-> a, body |-> Written(mem, size)]
<1>1. f \in File
  BY WrittenType DEF File
<1>2. /\ ImageOf(f) \in Seq(Datum) /\ Len(ImageOf(f)) = FileSize(f)
      /\ FileSize(f) \in 0 .. SizeCap
  BY <1>1, ImageFacts, SizeType
<1>3. ImageOf(f) \in Abstract!Image
  BY <1>2, ImageType
<1>4. /\ size \in 0 .. SizeCap /\ SizeCap \in Nat /\ SizeCap > 0
      /\ \A i \in 1 .. size : mem[i] \in Datum
      /\ CR \in Datum /\ NUL \in Datum
  BY DataAssumption DEF TypeOK, Memory
<1>5. ASSUME a = "asc", size # 0
      PROVE  ImageOf(f) = Abstract!Recorded(a, mem, size)
  <2> DEFINE chars == IF mem[size] = NUL THEN size - 1 ELSE size
             room == IF chars < SizeCap THEN chars ELSE SizeCap - 1
             g == [i \in 1 .. room |-> IF mem[i] = LF THEN CR ELSE mem[i]]
             W == Written(mem, size)
  <2>1. ascii /\ size > 0
    <3>1. ascii
      BY <1>5, Zenon
    <3> QED
      BY <1>4, <1>5, <3>1
  <2>2. /\ Len(W) = chars
        /\ \A i \in 1 .. chars : ToMemory(W[i]) = IF mem[i] = LF THEN CR ELSE mem[i]
    BY <2>1, WrittenText, Zenon
  <2>3. Abstract!Recorded(a, mem, size) = Append(g, NUL)
    BY <1>5, Zenon DEF Abstract!Recorded, Abstract!AsText
  <2>4. chars \in Nat /\ chars <= size /\ room \in Nat /\ room <= chars
    BY <1>4, <1>5
  <2>5. FileSize(f) = room + 1
    <3>1. f.attr = "asc" /\ f.body = W
      BY <1>5
    <3> HIDE DEF f, W, chars
    <3> QED
      BY <1>4, <1>5, <2>2, <2>4, <3>1 DEF FileSize, Smaller
  <2> HIDE DEF chars, room
  <2>6. /\ g \in Seq(Datum) /\ Len(g) = room
        /\ \A i \in 1 .. room : g[i] = IF mem[i] = LF THEN CR ELSE mem[i]
    <3>1. \A i \in 1 .. room : (IF mem[i] = LF THEN CR ELSE mem[i]) \in Datum
      BY <1>4, <2>4
    <3> QED
      BY <2>4, <3>1
  <2> HIDE DEF g
  <2>7. /\ Append(g, NUL) \in Seq(Datum) /\ Len(Append(g, NUL)) = room + 1
        /\ Append(g, NUL)[room + 1] = NUL
        /\ \A i \in 1 .. room : Append(g, NUL)[i] = g[i]
    BY <1>4, <2>4, <2>6
  <2>8. /\ ImageOf(f)[room + 1] = NUL
        /\ \A i \in 1 .. room : ImageOf(f)[i] = ToMemory(W[i])
    <3>1. f.attr = "asc" /\ f.body = W
      BY <1>5
    <3> HIDE DEF f, W
    <3>2. /\ ImageOf(f)[FileSize(f)] = NUL
          /\ \A i \in 1 .. FileSize(f) - 1 : ImageOf(f)[i] = ToMemory(f.body[i])
      BY <1>1, <3>1, ImageFacts
    <3>3. FileSize(f) - 1 = room
      BY <2>4, <2>5
    <3> QED
      BY <2>5, <3>1, <3>2, <3>3, Zenon
  <2> HIDE DEF f, W
  <2>9. \A i \in 1 .. room + 1 : ImageOf(f)[i] = Append(g, NUL)[i]
    <3> SUFFICES ASSUME NEW i \in 1 .. room + 1
                 PROVE  ImageOf(f)[i] = Append(g, NUL)[i]
      OBVIOUS
    <3>1. CASE i = room + 1
      BY <3>1, <2>7, <2>8
    <3>2. CASE i # room + 1
      <4>1. i \in 1 .. room /\ i \in 1 .. chars
        BY <2>4, <3>2
      <4> QED
        BY <4>1, <2>2, <2>6, <2>7, <2>8
    <3> QED
      BY <3>1, <3>2
  <2>10. ImageOf(f) = Append(g, NUL)
    BY <1>2, <2>5, <2>7, <2>9, SeqEqual
  <2> QED
    BY <2>3, <2>10
<1>6. ASSUME a # "asc"
      PROVE  ImageOf(f) = Abstract!Recorded(a, mem, size)
  <2> DEFINE g == [i \in 1 .. size |-> mem[i]]
  <2>1. Abstract!Recorded(a, mem, size) = g /\ Written(mem, size) = g
    BY <1>6 DEF Abstract!Recorded, Written
  <2>2. g \in Seq(Datum) /\ Len(g) = size /\ \A i \in 1 .. size : g[i] = mem[i]
    BY <1>4
  <2>3. f.attr # "asc" /\ f.body = g
    BY <1>6, <2>1
  <2> HIDE DEF f, g
  <2>4. FileSize(f) = size
    BY <1>4, <2>2, <2>3 DEF FileSize, Smaller
  <2>5. \A i \in 1 .. size : ImageOf(f)[i] = g[i]
    BY <1>1, <2>3, <2>4, ImageFacts
  <2> QED
    BY <1>2, <2>1, <2>2, <2>4, <2>5, SeqEqual
<1> QED
  BY <1>1, <1>3, <1>5, <1>6

-----------------------------------------------------------------------------
(* The calls, one after the other, and the steps of Cassette they take.    *)

(* #WRI: a recording is opened to save, or nothing is open.                *)
LEMMA WriteOpenSteps ==
    ASSUME OpenInv, WriteOpen
    PROVE  /\ ret' = 0 => Abstract!New(Stou[fib.name], fib.attr)
           /\ ret' # 0 => Abstract!Eject
<1> DEFINE u == Stou[fib.name]
           f == [attr |-> fib.attr, body |-> <<>>]
<1>1. TypeOK /\ u \in Unix /\ UNCHANGED <<mem, size>> /\ mem \in Memory
  BY NameType DEF OpenInv, WriteOpen, program, TypeOK
<1>2. CASE u \in Locked
  <2>1. open' = Null /\ ret' = 1 /\ Recordings' = Recordings
    BY <1>2, RecordingsStay DEF WriteOpen
  <2> QED
    BY <1>1, <2>1 DEF Abstract!Eject, Memory
<1>3. CASE u \notin Locked
  <2>1. /\ open' = [file |-> u, mode |-> "w"] /\ ret' = 0
        /\ disk' = [disk EXCEPT ![u] = f]
    BY <1>3 DEF WriteOpen
  <2>2. f \in File
    BY <1>1 DEF TypeOK, File
  <2>3. Recordings' = [Recordings EXCEPT ![u] = Recorded(f)]
    <3> HIDE DEF f, u
    <3> QED
      BY <1>1, <2>1, <2>2, RecordingsChange
  <2>4. ImageOf(f) = IF fib.attr = "asc" THEN <<NUL>> ELSE <<>>
    <3>1. SizeCap \in Nat /\ SizeCap > 0
      BY DataAssumption
    <3>2. CASE fib.attr = "asc"
      <4>1. 1 .. Smaller(0, SizeCap - 1) = {} /\ Len(f.body) = 0
        BY <3>1 DEF Smaller
      <4>2. ImageOf(f) = Append([i \in {} |->
                             IF f.body[i] = LF THEN CR ELSE f.body[i]], NUL)
        BY <3>2, <4>1 DEF ImageOf
      <4>3. [i \in {} |-> IF f.body[i] = LF THEN CR ELSE f.body[i]] = <<>>
        OBVIOUS
      <4> QED
        BY <3>2, <4>2, <4>3
    <3>3. CASE fib.attr # "asc"
      <4>1. Smaller(0, SizeCap) = 0 /\ Len(f.body) = 0
        BY <3>1 DEF Smaller
      <4>2. ImageOf(f) = SubSeq(<<>>, 1, 0)
        BY <3>3, <4>1 DEF ImageOf
      <4> QED
        BY <3>3, <4>2, SubSeqEmpty
    <3> QED
      BY <3>2, <3>3
  <2>5. Recorded(f) = [attr |-> fib.attr,
                       image |-> IF fib.attr = "asc" THEN <<NUL>> ELSE <<>>]
    BY <2>4 DEF Recorded
  <2> HIDE DEF f, u
  <2>6. Abstract!New(u, fib.attr)
    BY <1>1, <2>1, <2>3, <2>5 DEF Abstract!New
  <2> QED
    BY <2>1, <2>6 DEF u
<1> QED
  BY <1>2, <1>3

(* dio_ropen with what its callers store: the file that opens is played.   *)
LEMMA ReadInfoPlays ==
    ASSUME TypeOK, NEW u, u \in Unix, ReadInfo(u), UNCHANGED <<disk, mem>>
    PROVE  /\ Opens(u) => Abstract!Play(u)
           /\ ~Opens(u) => Abstract!Eject
<1>1. Recordings' = Recordings /\ mem \in Memory
  BY RecordingsStay DEF TypeOK
<1>2. ASSUME Opens(u) PROVE Abstract!Play(u)
  <2>1. disk[u] \in File /\ disk[u] # Null
    BY <1>2, OpensType
  <2>2. Recordings[u] = Recorded(disk[u]) /\ Recordings[u] # Null
    BY <2>1, RecordingOf
  <2>3. Len(Recordings[u].image) = FileSize(disk[u])
    BY <2>1, <2>2, ImageFacts DEF Recorded
  <2>4. open' = [file |-> u, mode |-> "r"] /\ size' = FileSize(disk[u])
    BY <1>2 DEF ReadInfo
  <2> QED
    BY <1>1, <2>2, <2>3, <2>4 DEF Abstract!Play
<1>3. ASSUME ~Opens(u) PROVE Abstract!Eject
  BY <1>1, <1>3 DEF ReadInfo, Abstract!Eject, Memory
<1> QED
  BY <1>2, <1>3

(* #ROPEN.                                                                 *)
LEMMA ReadOpenSteps ==
    ASSUME OpenInv, ReadOpen
    PROVE  /\ ret' = 0 => Abstract!Play(Stou[fib.name])
           /\ ret' # 0 => Abstract!Eject
<1>1. TypeOK /\ Stou[fib.name] \in Unix
  BY NameType DEF OpenInv
<1>2. /\ ReadInfo(Stou[fib.name]) /\ UNCHANGED <<disk, mem>>
      /\ ret' = 0 <=> Opens(Stou[fib.name])
  BY DEF ReadOpen, files
<1> QED
  BY <1>1, <1>2, ReadInfoPlays

(* #WDD: what is open to save is saved; what is open to load is closed.    *)
LEMMA WriteDataSteps ==
    ASSUME OpenInv, WriteData
    PROVE  /\ open = Null => UNCHANGED Abstract!cvars
           /\ open # Null /\ open.mode = "w" => Abstract!Save /\ ret' = 0
           /\ open # Null /\ open.mode = "r" => Abstract!Eject
<1>1. TypeOK /\ open' = Null /\ UNCHANGED <<mem, size>> /\ mem \in Memory
  BY DEF OpenInv, WriteData, program, TypeOK
<1>2. ASSUME open = Null PROVE UNCHANGED Abstract!cvars
  <2>1. disk' = disk
    BY <1>2 DEF WriteData
  <2> QED
    BY <1>1, <1>2, <2>1, RecordingsStay DEF Abstract!cvars
<1>3. ASSUME open # Null, open.mode = "w" PROVE Abstract!Save /\ ret' = 0
  <2> DEFINE u == open.file
             a == disk[u].attr
             f == [attr |-> a, body |-> Written(mem, size)]
  <2>1. u \in Unix /\ disk[u] \in File /\ disk[u] # Null /\ a \in Attr
    BY <1>3 DEF OpenInv, TypeOK, Handle, File
  <2>2. ascii = (a = "asc")
    BY <1>3 DEF OpenInv, ModeMatches
  <2>3. /\ f \in File /\ ImageOf(f) \in Abstract!Image
        /\ ~(a = "asc" /\ size = 0) =>
              ImageOf(f) = Abstract!Recorded(a, mem, size)
    BY <1>1, <2>1, <2>2, SavedImage
  <2>4. disk' = [disk EXCEPT ![u] = f] /\ ret' = 0
    <3>1. disk' = [disk EXCEPT ![u].body = Written(mem, size)] /\ ret' = 0
      BY <1>3 DEF WriteData
    <3>2. [disk[u] EXCEPT !.body = Written(mem, size)] = f
      BY <2>1 DEF File
    <3> QED
      BY <2>1, <3>1, <3>2
  <2>5. Recordings' = [Recordings EXCEPT ![u] = Recorded(f)]
    <3> HIDE DEF f, u
    <3> QED
      BY <1>1, <2>1, <2>3, <2>4, RecordingsChange
  <2>6. Recordings[u] = Recorded(disk[u])
    BY <1>1, <2>1, RecordingOf
  <2>7. Recordings' = [Recordings EXCEPT ![u].image = ImageOf(f)]
        /\ Recordings[u].attr = a
    <3>1. Recordings[u] = [attr |-> a, image |-> ImageOf(disk[u])]
      BY <2>6 DEF Recorded
    <3>2. [Recordings[u] EXCEPT !.image = ImageOf(f)] = Recorded(f)
      <4>1. Recorded(f) = [attr |-> a, image |-> ImageOf(f)]
        BY DEF Recorded
      <4> HIDE DEF f, a
      <4> QED
        BY <3>1, <4>1
    <3>3. Recordings[u].attr = a
      BY <3>1
    <3> DEFINE i == ImageOf(f)
               R == Recordings
               r == Recorded(f)
    <3>4. R' = [R EXCEPT ![u] = r] /\ [R[u] EXCEPT !.image = i] = r
      BY <2>5, <3>2
    <3>5. [R EXCEPT ![u].image = i] = [R EXCEPT ![u] = [R[u] EXCEPT !.image = i]]
      <4> HIDE DEF i, u, R
      <4> QED
        OBVIOUS
    <3> HIDE DEF i, u, r
    <3>6. R' = [R EXCEPT ![u].image = i]
      BY <3>4, <3>5
    <3> QED
      BY <3>3, <3>6 DEF i
  <2>8. ImageOf(f) \in IF Abstract!NoText(a) THEN Abstract!Image
                       ELSE {Abstract!Recorded(a, mem, size)}
    BY <2>3 DEF Abstract!NoText
  <2> HIDE DEF f, a
  <2> QED
    BY <1>1, <1>3, <2>4, <2>7, <2>8 DEF Abstract!Save
<1>4. ASSUME open # Null, open.mode = "r" PROVE Abstract!Eject
  <2>1. disk' = disk
    BY <1>4 DEF WriteData
  <2> QED
    BY <1>1, <2>1, RecordingsStay DEF Abstract!Eject, Memory
<1> QED
  BY <1>2, <1>3, <1>4

(* #RDD: what is open to load is loaded, if there are as many bytes as     *)
(* asked for; if not, nothing is stored behind these.                      *)
LEMMA ReadDataSteps ==
    ASSUME OpenInv, ReadData
    PROVE  /\ open = Null => UNCHANGED Abstract!cvars
           /\ open # Null /\ open.mode = "r" /\ ret' = 0 => Abstract!Load
           /\ open # Null /\ ~(open.mode = "r" /\ ret' = 0) => Abstract!Eject
<1>1. /\ TypeOK /\ open' = Null /\ UNCHANGED <<disk, size>>
      /\ mem \in Memory /\ Recordings' = Recordings
      /\ SizeCap \in Nat /\ size \in 0 .. SizeCap
      /\ CR \in Datum /\ NUL \in Datum
  BY RecordingsStay, DataAssumption DEF OpenInv, ReadData, files, TypeOK
<1>2. ASSUME open = Null PROVE UNCHANGED Abstract!cvars
  BY <1>1, <1>2 DEF ReadData, Abstract!cvars
<1>3. ASSUME open # Null, open.mode = "r", ret' = 0 PROVE Abstract!Load
  <2> DEFINE f == disk[open.file]
             r == Recordings[open.file]
  <2>1. open.file \in Unix /\ f # Null /\ f \in File
    BY <1>3 DEF OpenInv, TypeOK, Handle
  <2>2. r = Recorded(f) /\ r.attr = f.attr /\ r.image = ImageOf(f)
    BY <1>1, <2>1, RecordingOf DEF Recorded
  <2>3. ascii = (f.attr = "asc")
    BY <1>3 DEF OpenInv, ModeMatches
  <2>4. ~TooShort(f.body) /\ mem' = Loaded(f.body)
    BY <1>3 DEF ReadData, Readable
  <2>5. /\ Len(r.image) = FileSize(f)
        /\ f.body \in Seq(Datum) /\ Len(f.body) \in Nat
    BY <2>1, <2>2, ImageFacts DEF File
  <2>6. size <= Len(r.image) /\ ~Abstract!NoText(r.attr)
    <3> HIDE DEF f, r
    <3>1. CASE f.attr = "asc"
      <4>1. Wanted = size - 1
        BY <2>3, <3>1, Zenon DEF Wanted
      <4> QED
        BY <1>1, <2>2, <2>4, <2>5, <3>1, <4>1
        DEF TooShort, FileSize, Smaller, Abstract!NoText
    <3>2. CASE f.attr # "asc"
      <4>1. Wanted = size
        BY <2>3, <3>2, Zenon DEF Wanted
      <4> QED
        BY <1>1, <2>2, <2>4, <2>5, <3>2, <4>1
        DEF TooShort, FileSize, Smaller, Abstract!NoText
    <3> QED
      BY <3>1, <3>2
  <2>7. mem' = [i \in 1 .. SizeCap |->
                  IF i > size THEN mem[i]
                  ELSE IF r.attr = "asc" /\ i = size THEN NUL ELSE r.image[i]]
    <3> DEFINE g == [i \in 1 .. SizeCap |->
                  IF i > size THEN mem[i]
                  ELSE IF r.attr = "asc" /\ i = size THEN NUL ELSE r.image[i]]
    <3>1. ASSUME NEW i \in 1 .. SizeCap PROVE Loaded(f.body)[i] = g[i]
      <4> HIDE DEF f, r
      <4>1. Loaded(f.body)[i] =
              IF i <= Wanted THEN IF ascii THEN ToMemory(f.body[i]) ELSE f.body[i]
              ELSE IF ascii /\ i = size THEN NUL ELSE mem[i]
        BY <2>4 DEF Loaded
      <4>2. CASE f.attr = "asc"
        <5>1. Wanted = size - 1 /\ ascii
          BY <2>3, <4>2, Zenon DEF Wanted
        <5>2. i <= size - 1 => r.image[i] = ToMemory(f.body[i])
          <6>1. \A j \in 1 .. FileSize(f) - 1 :
                    ImageOf(f)[j] = ToMemory(f.body[j])
            BY <2>1, <4>2, ImageFacts
          <6>2. FileSize(f) \in 0 .. SizeCap
            BY <2>1, SizeType
          <6>3. i <= size - 1 => i \in 1 .. FileSize(f) - 1
            BY <1>1, <2>5, <2>6, <6>2
          <6> QED
            BY <2>2, <6>1, <6>3
        <5> QED
          BY <1>1, <2>2, <4>1, <4>2, <5>1, <5>2
      <4>3. CASE f.attr # "asc"
        <5>1. Wanted = size /\ ~ascii
          BY <2>3, <4>3, Zenon DEF Wanted
        <5>2. i <= size => r.image[i] = f.body[i]
          <6>1. \A j \in 1 .. FileSize(f) : ImageOf(f)[j] = f.body[j]
            BY <2>1, <4>3, ImageFacts
          <6>2. FileSize(f) \in 0 .. SizeCap
            BY <2>1, SizeType
          <6>3. i <= size => i \in 1 .. FileSize(f)
            BY <1>1, <2>5, <2>6, <6>2
          <6> QED
            BY <2>2, <6>1, <6>3
        <5> QED
          BY <1>1, <2>2, <4>1, <4>3, <5>1, <5>2
      <4> QED
        BY <4>2, <4>3
    <3> HIDE DEF f, r
    <3> QED
      BY <2>4, <3>1 DEF Loaded
  <2> HIDE DEF f
  <2> QED
    BY <1>1, <1>3, <2>6, <2>7 DEF Abstract!Load
<1>4. ASSUME open # Null, ~(open.mode = "r" /\ ret' = 0) PROVE Abstract!Eject
  <2>1. mem' = Loaded(Readable) /\ (TooShort(Readable) \/ open.mode # "r")
    BY <1>4 DEF ReadData
  <2>2. Readable \in Seq(Datum) /\ Len(Readable) \in Nat
        /\ (open.mode # "r" => Readable = <<>>)
    BY <1>4 DEF OpenInv, TypeOK, Handle, File, Readable
  <2>3. mem' \in Memory
    BY <1>1, <2>1, <2>2, LoadedType
  <2>4. ASSUME size # 0, NEW i \in size + 1 .. SizeCap PROVE mem'[i] = mem[i]
    <3>1. i \in 1 .. SizeCap /\ i > size /\ size > 0
      BY <1>1, <2>4
    <3>2. Wanted \in {size, size - 1} /\ Wanted >= 0
      BY <3>1, <1>1 DEF Wanted
    <3>3. CASE TooShort(Readable)
      <4>1. i > Len(Readable)
        BY <1>1, <2>2, <3>1, <3>2, <3>3 DEF TooShort
      <4> QED
        BY <2>1, <2>2, <3>1, <3>3, <4>1 DEF Loaded
    <3>4. CASE ~TooShort(Readable)
      BY <1>1, <2>1, <3>1, <3>2, <3>4 DEF Loaded
    <3> QED
      BY <3>3, <3>4
  <2> QED
    BY <1>1, <2>3, <2>4 DEF Abstract!Eject, Memory
<1> QED
  BY <1>2, <1>3, <1>4

(* #RDI: an entry that is found is played, under the name it has for S-OS. *)
LEMMA RdiReadSteps ==
    ASSUME OpenInv, NEW t \in Deck, RdiRead(t)
    PROVE  /\ alive' /\ ret' = 0 /\ open' # Null => Abstract!Play(Stou[fib'.name])
           /\ \/ \E u \in Unix : Abstract!Play(u)
              \/ Abstract!Eject
              \/ UNCHANGED Abstract!cvars
<1> DEFINE o == DirOpen(dirno[t])
<1>1. TypeOK /\ UNCHANGED disk /\ Recordings' = Recordings
  BY RecordingsStay DEF OpenInv, RdiRead, files
<1>2. o.entry \in Unix \cup {"end", "fault"}
  <2>1. dirno[t] \in Nat
    BY <1>1, DataAssumption DEF TypeOK
  <2> QED
    BY <1>1, <2>1, DirOpenType
<1>3. CASE o.entry \in {"end", "fault"}
  <2>1. UNCHANGED <<open, mem, size>> /\ (~alive' \/ ret' = 8)
    BY <1>3 DEF RdiRead, program
  <2> QED
    BY <1>1, <2>1 DEF Abstract!cvars
<1>4. CASE o.entry \in Unix
  <2> DEFINE u == Stou[Utos[o.entry]]
  <2>1. RdiFound(t, o.entry)
    BY <1>4, NameAssumption DEF RdiRead
  <2>2. ReadInfo(u) /\ fib'.name = Utos[o.entry] /\ UNCHANGED mem
    BY <2>1 DEF RdiFound
  <2>3. u \in Unix
    BY <1>4, NameAssumption
  <2>4. open' # Null => Opens(u)
    BY <2>2 DEF ReadInfo
  <2>5. (Opens(u) => Abstract!Play(u)) /\ (~Opens(u) => Abstract!Eject)
    <3> HIDE DEF u
    <3> QED
      BY <1>1, <2>2, <2>3, ReadInfoPlays
  <2> HIDE DEF o
  <2> QED
    BY <2>2, <2>3, <2>4, <2>5
<1> QED
  BY <1>2, <1>3, <1>4

(* #DIR opens files and closes them, and leaves none open.                 *)
LEMMA ListingSteps ==
    ASSUME OpenInv, Tdir \/ TdirNoDirectory
    PROVE  Abstract!Eject \/ UNCHANGED Abstract!cvars
<1>1. /\ open' = open \/ open' = Null
      /\ UNCHANGED <<disk, mem, size>> /\ mem \in Memory
  BY DEF OpenInv, TypeOK, Tdir, TdirNoDirectory, files, program
<1> QED
  BY <1>1, RecordingsStay DEF Abstract!Eject, Abstract!cvars, Memory

(* The program's own stores, to the memory and to #SIZE, and the name it   *)
(* gives, which is no part of a recording.                                 *)
LEMMA ProgramSteps ==
    ASSUME OpenInv, Program
    PROVE  Abstract!Use \/ UNCHANGED Abstract!cvars
<1>1. OpenInv'
  BY ProgramInv
<1>2. UNCHANGED <<disk, open>> /\ mem' \in Memory /\ size' \in 0 .. SizeCap
  <2>1. UNCHANGED <<disk, open>>
    BY DEF Program, FileCall, Store, SetSize, files
  <2> QED
    BY <1>1, <2>1 DEF OpenInv, TypeOK
<1> QED
  BY <1>2, RecordingsStay DEF Abstract!Use, Memory

(* The end of the emulator: at most the recording that was being saved is  *)
(* lost, and it is an empty text.                                          *)
LEMMA RestartSteps ==
    ASSUME OpenInv, Restart
    PROVE  Abstract!Reset
<1>1. /\ TypeOK /\ open' = Null
      /\ mem' \in [1 .. SizeCap -> Datum] /\ size' \in 0 .. SizeCap
  BY RestartInv DEF OpenInv, Restart, TypeOK, Memory
<1>2. CASE UNCHANGED disk
  BY <1>1, <1>2, RecordingsStay DEF Abstract!Reset
<1>3. CASE /\ open # Null /\ open.mode = "w"
           /\ disk' = [disk EXCEPT ![open.file] = [attr |-> "asc", body |-> <<>>]]
  <2> DEFINE f == [attr |-> "asc", body |-> <<>>]
  <2>1. f \in File /\ open.file \in Unix
    BY <1>1, <1>3 DEF File, Attr, TypeOK, Handle
  <2>2. Recordings' = [Recordings EXCEPT ![open.file] = Recorded(f)]
    <3> HIDE DEF f
    <3> QED
      BY <1>1, <1>3, <2>1, RecordingsChange DEF f
  <2>3. Recorded(f) = [attr |-> "asc", image |-> <<NUL>>]
    <3>1. 1 .. Smaller(0, SizeCap - 1) = {}
      BY DataAssumption DEF Smaller
    <3>2. ImageOf(f) = Append([i \in {} |->
                           IF f.body[i] = LF THEN CR ELSE f.body[i]], NUL)
      BY <3>1 DEF ImageOf
    <3>3. [i \in {} |-> IF f.body[i] = LF THEN CR ELSE f.body[i]] = <<>>
      OBVIOUS
    <3> QED
      BY <3>2, <3>3 DEF Recorded
  <2> HIDE DEF f
  <2> QED
    BY <1>1, <1>3, <2>2, <2>3 DEF Abstract!Reset
<1> QED
  BY <1>2, <1>3 DEF Restart

(* The files of the host are recordings when the emulator starts.          *)
LEMMA InitRecordings == Init => Abstract!CInit
<1> SUFFICES ASSUME Init PROVE Abstract!CInit
  OBVIOUS
<1>1. TypeOK /\ open = Null
  BY InitInv DEF OpenInv, Init, Started
<1>2. Recordings \in [Unix -> Abstract!Recording \cup {Null}]
  <2> SUFFICES ASSUME NEW u \in Unix
               PROVE  Recordings[u] \in Abstract!Recording \cup {Null}
    BY DEF Recordings
  <2>1. CASE disk[u] = Null
    BY <1>1, <2>1, RecordingOf
  <2>2. CASE disk[u] # Null
    BY <1>1, <2>2, FileOf, RecordingOf, RecordedType
  <2> QED
    BY <2>1, <2>2
<1> QED
  BY <1>1, <1>2 DEF Abstract!CInit, TypeOK, Memory

(* Every step of the tapes is a step of Cassette, or none.                 *)
LEMMA StepRecordings ==
    OpenInv /\ [Next]_vars => [Abstract!CNext]_Abstract!cvars
<1> SUFFICES ASSUME OpenInv, [Next]_vars
             PROVE  Abstract!CNext \/ UNCHANGED Abstract!cvars
  OBVIOUS
<1> USE DEF Abstract!CNext
<1>1. CASE Program
  BY <1>1, ProgramSteps
<1>2. CASE WriteOpen
  <2>1. Stou[fib.name] \in Unix /\ fib.attr \in {"asc", "bin"}
    BY NameType DEF OpenInv, TypeOK, Attr
  <2> QED
    BY <1>2, <2>1, WriteOpenSteps
<1>3. CASE ReadOpen
  <2>1. Stou[fib.name] \in Unix
    BY NameType DEF OpenInv
  <2> QED
    BY <1>3, <2>1, ReadOpenSteps
<1>4. CASE WriteData
  <2>1. open = Null \/ open.mode \in {"r", "w"}
    BY DEF OpenInv, TypeOK, Handle
  <2> QED
    BY <1>4, <2>1, WriteDataSteps
<1>5. CASE ReadData
  BY <1>5, ReadDataSteps
<1>6. CASE \E t \in Deck : RdiRead(t)
  BY <1>6, RdiReadSteps
<1>7. CASE \E t \in Deck : RdiBreak(t) \/ RdiReturn(t) \/ RdiNoDirectory(t)
  <2>1. UNCHANGED <<disk, open, mem, size>>
    BY <1>7 DEF RdiBreak, RdiReturn, RdiNoDirectory, files, program
  <2> QED
    BY <2>1, RecordingsStay DEF Abstract!cvars
<1>8. CASE Tdir \/ TdirNoDirectory
  BY <1>8, ListingSteps
<1>9. CASE Restart
  BY <1>9, RestartSteps
<1>10. CASE UNCHANGED vars
  BY <1>10, RecordingsStay DEF vars, program, Abstract!cvars
<1> QED
  BY <1>1, <1>2, <1>3, <1>4, <1>5, <1>6, <1>7, <1>8, <1>9, <1>10
  DEF Next, Transfer, Rdi

(* A program that saves and loads sees a set of recordings, whatever is    *)
(* listed, opened, closed or killed in between: TapeDir implements         *)
(* Cassette.                                                               *)
THEOREM TapesImplementCassette == Spec => KeepsRecordings
<1>1. Init => Abstract!CInit
  BY InitRecordings
<1>2. OpenInv /\ [Next]_vars => [Abstract!CNext]_Abstract!cvars
  BY StepRecordings
<1> QED
  BY <1>1, <1>2, OpenFileInvariant, PTL
  DEF Spec, KeepsRecordings, Abstract!CSpec

(* Every call that succeeds takes the step of Cassette it is named for:    *)
(* what was saved is what is loaded.                                       *)
THEOREM TransfersAreKept == Spec => TransfersKeepPromises
<1> DEFINE Kept ==
      /\ WriteOpen /\ ret' = 0 => Abstract!New(Stou[fib.name], fib.attr)
      /\ ReadOpen /\ ret' = 0 => Abstract!Play(Stou[fib.name])
      /\ WriteData /\ open # Null /\ open.mode = "w" =>
            Abstract!Save /\ ret' = 0
      /\ ReadData /\ ret' = 0 /\ open # Null /\ open.mode = "r" =>
            Abstract!Load
      /\ \A t \in Deck : RdiRead(t) /\ alive' /\ ret' = 0 /\ open' # Null =>
            Abstract!Play(Stou[fib'.name])
<1>1. OpenInv => [Kept]_vars
  BY WriteOpenSteps, ReadOpenSteps, WriteDataSteps, ReadDataSteps, RdiReadSteps
<1> QED
  BY <1>1, OpenFileInvariant, PTL DEF TransfersKeepPromises
=============================================================================
