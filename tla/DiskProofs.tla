----------------------------- MODULE DiskProofs -----------------------------
(***************************************************************************)
(* Proofs about Fcb, for any drives, names, directories and images: that   *)
(* what calls write to an image is on the host when its last drive has     *)
(* closed it, through mounts, failing reads, directory searches and kills, *)
(* that a read returns what was written last, and that #FCB finds the next *)
(* entry of the directory.                                                 *)
(***************************************************************************)
EXTENDS Fcb, SequenceTheorems, TLAPS

(* The image of drive u with the stream's buffer written out.              *)
Content(d, u) ==
    LET s == d.fp[u]
    IN IF s.pend = NoWrite THEN d.host[s.file]
       ELSE Over(d.host[s.file], s.pend.at, s.pend.data)

Device == [host : [Image -> Seq(Sector)], disk : [Unit -> Name \cup {Unnamed}],
           fp : [Unit -> {Closed} \cup Stream]]

(* All that is in the images or waits in a buffer fits.                    *)
Fits(d) ==
    /\ d \in Device
    /\ \A f \in Image : Len(d.host[f]) <= MaxRec
    /\ \A u \in Unit : d.fp[u] # Closed /\ d.fp[u].pend # NoWrite =>
          d.fp[u].pend.at + Len(d.fp[u].pend.data) <= MaxRec

(* No two drives have one image open.                                      *)
Alone(d) ==
    \A u, v \in Unit : u # v /\ d.fp[u] # Closed /\ d.fp[v] # Closed =>
                         d.fp[u].file # d.fp[v].file

(* The images have what was written, but for what waits in the buffer of   *)
(* the drive that has one open.                                            *)
Saved(d, w) ==
    /\ \A f \in Image : (\A u \in Unit : d.fp[u] = Closed \/ d.fp[u].file # f) =>
                           d.host[f] = w[f]
    /\ \A u \in Unit : d.fp[u] # Closed =>
          Content(d, u) = w[d.fp[u].file]

(* The inductive invariant.                                                *)
DiskInv ==
    /\ TypeOK
    /\ Fits(Now)
    /\ ~shared => Alone(Now) /\ Saved(Now, wrote)

(* The search is on a disk.                                                *)
Searching == pc = "scan" => dsk \in Unit \cup Reserved

-----------------------------------------------------------------------------
(* The larger of two numbers.                                              *)
LEMMA MaxTwo ==
    ASSUME NEW a \in Int, NEW b \in Int
    PROVE  Max({a, b}) = IF a >= b THEN a ELSE b
BY DEF Max

(* The smaller of two numbers.                                             *)
LEMMA MinTwo ==
    ASSUME NEW a \in Int, NEW b \in Int
    PROVE  Min({a, b}) = IF a <= b THEN a ELSE b
BY DEF Min

(* A write is never the empty sequence that stands for none.               *)
LEMMA WriteIsSome == \A a, b : [at |-> a, data |-> b] # NoWrite
<1> SUFFICES ASSUME NEW a, NEW b, [at |-> a, data |-> b] = NoWrite PROVE FALSE
  OBVIOUS
<1>1. DOMAIN [at |-> a, data |-> b] = {"at", "data"}
  OBVIOUS
<1>2. DOMAIN NoWrite = {}
  BY DEF NoWrite
<1> QED  BY <1>1, <1>2

(* A file with data written over it is a file, and fits if both did.       *)
LEMMA OverFits ==
    ASSUME NEW c \in Seq(Sector), NEW at \in Nat, NEW x \in Seq(Sector)
    PROVE  /\ Over(c, at, x) \in Seq(Sector)
           /\ Len(c) <= MaxRec /\ at + Len(x) <= MaxRec =>
                 Len(Over(c, at, x)) <= MaxRec
<1> DEFINE n == Max({Len(c), at + Len(x)})
           e(i) == IF i > at /\ i <= at + Len(x) THEN x[i - at]
                   ELSE IF i <= Len(c) THEN c[i] ELSE Zero
<1>1. n \in Nat /\ n = IF Len(c) >= at + Len(x) THEN Len(c) ELSE at + Len(x)
  BY MaxTwo
<1>2. \A i \in 1 .. n : e(i) \in Sector
  BY <1>1, DriveAssumption
<1>3. Over(c, at, x) = [i \in 1 .. n |-> e(i)]
  BY DEF Over
<1> HIDE DEF n, e
<1>4. [i \in 1 .. n |-> e(i)] \in Seq(Sector) /\ Len([i \in 1 .. n |-> e(i)]) = n
  BY <1>1, <1>2
<1> QED  BY <1>1, <1>3, <1>4, DriveAssumption

(* An open stream.                                                         *)
LEMMA StreamOf ==
    ASSUME NEW d \in Device, NEW u \in Unit, d.fp[u] # Closed
    PROVE  /\ d.fp[u] \in Stream /\ d.fp[u].file \in Image
           /\ d.fp[u].pend # NoWrite =>
                 /\ d.fp[u].pend.at \in Nat
                 /\ d.fp[u].pend.data \in Seq(Sector)
<1>1. d.fp[u] \in Stream
  BY DEF Device
<1>2. ASSUME d.fp[u].pend # NoWrite
      PROVE  d.fp[u].pend.at \in Nat /\ d.fp[u].pend.data \in Seq(Sector)
  BY <1>1, <1>2, DriveAssumption DEF Stream, Records
<1> QED  BY <1>1, <1>2 DEF Stream

(* Writing a buffer out touches one image and one buffer.                  *)
LEMMA FlushedFields ==
    ASSUME NEW d \in Device, NEW u \in Unit, d.fp[u] # Closed, Fits(d)
    PROVE  /\ Fits(Flushed(d, u))
           /\ Flushed(d, u).disk = d.disk
           /\ Flushed(d, u).fp[u] = [file |-> d.fp[u].file, pend |-> NoWrite]
           /\ \A v \in Unit \ {u} : Flushed(d, u).fp[v] = d.fp[v]
           /\ Flushed(d, u).host =
                 [d.host EXCEPT ![d.fp[u].file] = Content(d, u)]
<1> DEFINE s == d.fp[u]
<1>1. s \in Stream /\ s.file \in Image /\ s = [file |-> s.file, pend |-> s.pend]
  BY StreamOf DEF Stream
<1>2. CASE s.pend = NoWrite
  <2>1. Flushed(d, u) = d /\ Content(d, u) = d.host[s.file]
    BY <1>2 DEF Flushed, Content
  <2>2. d.host = [d.host EXCEPT ![s.file] = d.host[s.file]]
    BY <1>1 DEF Device
  <2> QED  BY <1>1, <1>2, <2>1, <2>2
<1>3. CASE s.pend # NoWrite
  <2> DEFINE o == Over(d.host[s.file], s.pend.at, s.pend.data)
             t == [host |-> [d.host EXCEPT ![s.file] = o], disk |-> d.disk,
                   fp |-> [d.fp EXCEPT ![u] = [file |-> s.file, pend |-> NoWrite]]]
  <2>1. Flushed(d, u) = t /\ Content(d, u) = o
    BY <1>3 DEF Flushed, Content
  <2>2. o \in Seq(Sector) /\ Len(o) <= MaxRec
    BY <1>1, <1>3, StreamOf, OverFits DEF Fits, Device
  <2>3. [file |-> s.file, pend |-> NoWrite] \in Stream
    BY <1>1 DEF Stream
  <2> HIDE DEF o
  <2>4. t \in Device
    BY <1>1, <2>2, <2>3 DEF Device
  <2>5. Fits(t)
    BY <2>2, <2>3, <2>4, <1>1, StreamOf, ClosedAssumption DEF Fits, Device
  <2> QED  BY <2>1, <2>5, <1>1, <1>3 DEF Device
<1> QED  BY <1>2, <1>3

(* So the image that was flushed is as it was written.                     *)
LEMMA FlushedSaves ==
    ASSUME NEW d \in Device, NEW u \in Unit, d.fp[u] # Closed, Fits(d),
           NEW w, Alone(d), Saved(d, w)
    PROVE  /\ Alone(Flushed(d, u)) /\ Saved(Flushed(d, u), w)
           /\ Flushed(d, u).host[d.fp[u].file] = w[d.fp[u].file]
<1> DEFINE t == Flushed(d, u)  s == d.fp[u]
<1>1. /\ t.fp[u] = [file |-> s.file, pend |-> NoWrite]
      /\ \A v \in Unit \ {u} : t.fp[v] = d.fp[v]
      /\ t.host = [d.host EXCEPT ![s.file] = Content(d, u)]
      /\ t \in Device /\ s.file \in Image
  BY FlushedFields, StreamOf DEF Fits
<1>2. t.fp[u] # Closed
  BY <1>1, ClosedAssumption DEF Stream
<1>3. t.host[s.file] = w[s.file] /\ \A f \in Image \ {s.file} : t.host[f] = d.host[f]
  BY <1>1 DEF Saved, Device
<1> HIDE DEF t
<1>4. Alone(t)
  BY <1>1, <1>2 DEF Alone
<1>5. ASSUME NEW v \in Unit, t.fp[v] # Closed PROVE Content(t, v) = w[t.fp[v].file]
  <2>1. CASE v = u
    BY <2>1, <1>1, <1>3 DEF Content
  <2>2. CASE v # u
    <3>1. t.fp[v] = d.fp[v] /\ d.fp[v].file \in Image /\ d.fp[v].file # s.file
      BY <2>2, <1>1, <1>5, StreamOf DEF Alone
    <3>2. Content(t, v) = Content(d, v)
      BY <3>1, <1>3 DEF Content
    <3> QED  BY <3>1, <3>2, <1>5 DEF Saved
  <2> QED  BY <2>1, <2>2
<1>6. ASSUME NEW f \in Image, \A v \in Unit : t.fp[v] = Closed \/ t.fp[v].file # f
      PROVE  t.host[f] = w[f]
  <2>1. f # s.file
    BY <1>1, <1>2, <1>6
  <2>2. \A v \in Unit : d.fp[v] = Closed \/ d.fp[v].file # f
    BY <1>1, <1>6, <2>1
  <2> QED  BY <2>1, <2>2, <1>3 DEF Saved
<1>7. Saved(t, w)
  BY <1>5, <1>6 DEF Saved
<1> QED  BY <1>3, <1>4, <1>7 DEF t

(* A stream whose buffer is empty may be closed.                           *)
LEMMA ClosedSaves ==
    ASSUME NEW d \in Device, NEW u \in Unit, Fits(d),
           d.fp[u] # Closed => d.fp[u].pend = NoWrite
    PROVE  /\ Fits([d EXCEPT !.fp[u] = Closed])
           /\ Alone(d) => Alone([d EXCEPT !.fp[u] = Closed])
           /\ \A w : Saved(d, w) => Saved([d EXCEPT !.fp[u] = Closed], w)
<1> DEFINE t == [d EXCEPT !.fp[u] = Closed]
<1>1. /\ t \in Device /\ t.host = d.host /\ t.disk = d.disk
      /\ t.fp = [d.fp EXCEPT ![u] = Closed]
  BY DEF Device
<1>2. t.fp[u] = Closed /\ \A v \in Unit \ {u} : t.fp[v] = d.fp[v]
  BY <1>1 DEF Device
<1> HIDE DEF t
<1>3. Fits(t)
  BY <1>1, <1>2 DEF Fits
<1>4. Alone(d) => Alone(t)
  BY <1>2 DEF Alone
<1>5. ASSUME NEW w, Saved(d, w) PROVE Saved(t, w)
  <2>1. ASSUME NEW v \in Unit, t.fp[v] # Closed PROVE Content(t, v) = w[t.fp[v].file]
    <3>1. t.fp[v] = d.fp[v]
      BY <1>2, <2>1
    <3> QED  BY <3>1, <1>1, <2>1, <1>5 DEF Content, Saved
  <2>2. ASSUME NEW f \in Image, \A v \in Unit : t.fp[v] = Closed \/ t.fp[v].file # f
        PROVE  t.host[f] = w[f]
    <3>1. CASE d.fp[u] # Closed /\ d.fp[u].file = f
      <4>1. Content(d, u) = d.host[f]
        BY <3>1 DEF Content
      <4> QED  BY <3>1, <4>1, <1>1, <1>5 DEF Saved
    <3>2. CASE d.fp[u] = Closed \/ d.fp[u].file # f
      <4>1. \A v \in Unit : d.fp[v] = Closed \/ d.fp[v].file # f
        BY <3>2, <1>2, <2>2
      <4> QED  BY <4>1, <1>1, <1>5 DEF Saved
    <3> QED  BY <3>1, <3>2
  <2> QED  BY <2>1, <2>2 DEF Saved
<1> QED  BY <1>3, <1>4, <1>5 DEF t

(* Opening changes the name and the stream of a drive without one.         *)
LEMMA OpenFields ==
    ASSUME NEW d \in Device, NEW u \in Unit, Fits(d), cwd \in Dir
    PROVE  /\ Fits(DiOpen(d, u)) /\ DiOpen(d, u).host = d.host
           /\ \A v \in Unit \ {u} : DiOpen(d, u).fp[v] = d.fp[v]
           /\ d.fp[u] # Closed => DiOpen(d, u) = d
           /\ d.fp[u] = Closed /\ DiOpen(d, u).fp[u] # Closed =>
                 DiOpen(d, u).fp[u].pend = NoWrite
<1>1. CASE d.fp[u] # Closed
  BY <1>1 DEF DiOpen
<1>2. CASE d.fp[u] = Closed
  <2> DEFINE name == IF d.disk[u] = Unnamed THEN Default[u] ELSE d.disk[u]
             file == Lead[cwd][name]
             s == IF file = NoImage THEN Closed ELSE [file |-> file, pend |-> NoWrite]
             t == [host |-> d.host, disk |-> [d.disk EXCEPT ![u] = name],
                   fp |-> [d.fp EXCEPT ![u] = s]]
  <2>1. DiOpen(d, u) = t
    BY <1>2 DEF DiOpen
  <2>2. name \in Name
    BY DriveAssumption DEF Device
  <2>3. file \in Image \cup {NoImage}
    BY <2>2, DriveAssumption
  <2>4. s \in {Closed} \cup Stream /\ (s # Closed => s.pend = NoWrite)
    BY <2>3 DEF Stream
  <2> HIDE DEF s, name
  <2>5. t \in Device
    BY <2>2, <2>4 DEF Device
  <2>6. t.fp[u] = s /\ t.host = d.host /\ \A v \in Unit \ {u} : t.fp[v] = d.fp[v]
    BY DEF Device
  <2> HIDE DEF t
  <2>7. Fits(t)
    BY <2>4, <2>5, <2>6 DEF Fits
  <2> QED  BY <1>2, <2>1, <2>4, <2>6, <2>7
<1> QED  BY <1>1, <1>2

(* A stream that is opened has nothing in its buffer.                      *)
LEMMA OpenSaves ==
    ASSUME NEW d \in Device, NEW u \in Unit, Fits(d), cwd \in Dir,
           NEW w, Alone(DiOpen(d, u)), Saved(d, w)
    PROVE  Saved(DiOpen(d, u), w)
<1> DEFINE t == DiOpen(d, u)
<1>1. /\ t.host = d.host /\ \A v \in Unit \ {u} : t.fp[v] = d.fp[v]
      /\ d.fp[u] # Closed => t = d
      /\ d.fp[u] = Closed /\ t.fp[u] # Closed => t.fp[u].pend = NoWrite
      /\ t \in Device
  BY OpenFields DEF Fits
<1> HIDE DEF t
<1>2. CASE d.fp[u] # Closed
  BY <1>1, <1>2 DEF t
<1>3. CASE d.fp[u] = Closed
  <2>1. ASSUME NEW v \in Unit, t.fp[v] # Closed PROVE Content(t, v) = w[t.fp[v].file]
    <3>1. CASE v # u
      <4>1. t.fp[v] = d.fp[v]
        BY <1>1, <3>1
      <4> QED  BY <4>1, <1>1, <2>1 DEF Content, Saved
    <3>2. CASE v = u
      <4>1. t.fp[u].file \in Image
        BY <1>1, <2>1, <3>2, StreamOf
      <4>2. \A x \in Unit : d.fp[x] = Closed \/ d.fp[x].file # t.fp[u].file
        BY <1>1, <1>3, <2>1, <3>2 DEF Alone, t
      <4>3. d.host[t.fp[u].file] = w[t.fp[u].file]
        BY <4>1, <4>2 DEF Saved
      <4> QED  BY <4>3, <1>1, <1>3, <2>1, <3>2 DEF Content
    <3> QED  BY <3>1, <3>2
  <2>2. ASSUME NEW f \in Image, \A v \in Unit : t.fp[v] = Closed \/ t.fp[v].file # f
        PROVE  t.host[f] = w[f]
    <3>1. \A v \in Unit : d.fp[v] = Closed \/ d.fp[v].file # f
      BY <1>1, <1>3, <2>2
    <3> QED  BY <3>1, <1>1 DEF Saved
  <2>3. Saved(t, w)
    BY <2>1, <2>2 DEF Saved
  <2> QED  BY <2>3 DEF t
<1> QED  BY <1>2, <1>3 DEF t

(* dio_diclose of a drive.                                                 *)
LEMMA CloseSaves ==
    ASSUME NEW d \in Device, NEW u \in Unit, Fits(d)
    PROVE  /\ Fits(DiClose(d, u))
           /\ \A w : Alone(d) /\ Saved(d, w) =>
                        Alone(DiClose(d, u)) /\ Saved(DiClose(d, u), w)
<1>1. CASE d.fp[u] = Closed
  BY <1>1 DEF DiClose
<1>2. CASE d.fp[u] # Closed
  <2> DEFINE t == Flushed(d, u)
  <2>1. t \in Device /\ Fits(t) /\ t.fp[u].pend = NoWrite
    <3>1. Fits(t) /\ t.fp[u] = [file |-> d.fp[u].file, pend |-> NoWrite]
      BY <1>2, FlushedFields
    <3> QED  BY <3>1 DEF Fits
  <2>2. DiClose(d, u) = [t EXCEPT !.fp[u] = Closed]
    BY <1>2 DEF DiClose
  <2>3. \A w : Alone(d) /\ Saved(d, w) => Alone(t) /\ Saved(t, w)
    BY <1>2, FlushedSaves
  <2> HIDE DEF t
  <2> DEFINE e == [t EXCEPT !.fp[u] = Closed]
  <2>4. Fits(e) /\ (Alone(t) => Alone(e)) /\ \A w : Saved(t, w) => Saved(e, w)
    BY <2>1, ClosedSaves
  <2> HIDE DEF e
  <2> QED  BY <2>2, <2>3, <2>4 DEF e
<1> QED  BY <1>1, <1>2

(* A drive that cannot be opened, or whose stream was only just opened and *)
(* is closed again: images and buffers are as they were.                   *)
LEMMA SameStreams ==
    ASSUME NEW d \in Device, NEW e \in Device, e.host = d.host, e.fp = d.fp,
           NEW w, Alone(d), Saved(d, w)
    PROVE  Saved(e, w)
<1>1. \A v \in Unit : Content(e, v) = Content(d, v)
  BY DEF Content
<1> QED  BY <1>1 DEF Saved

(* dio_dread: whatever fails, what was in the buffer is on the host.       *)
LEMMA ReadSaves ==
    ASSUME TypeOK, Fits(Now), NEW u \in Unit, NEW at \in Nat, NEW n \in Nat,
           NEW works \in BOOLEAN
    PROVE  LET r == DRead(at, n, u, works) IN
           /\ Fits(r.dev) /\ r.rc \in 0 .. 2 /\ r.data \in Seq(Sector)
           /\ Alone(Now) /\ Saved(Now, wrote) /\ Alone(r.dev) => Saved(r.dev, wrote)
<1> DEFINE d == DiOpen(Now, u)
           s == Flushed(d, u)
           content == s.host[s.fp[u].file]
           good == works /\ at + n <= Len(content)
           data == IF works THEN SubSeq(content, at + 1, Min({at + n, Len(content)}))
                   ELSE <<>>
           r == DRead(at, n, u, works)
<1>1. cwd \in Dir /\ Now \in Device
  BY DEF TypeOK, DrivesTypeOK, Fits
<1>2. /\ Fits(d) /\ d.host = Now.host /\ d \in Device
      /\ \A v \in Unit \ {u} : d.fp[v] = Now.fp[v]
      /\ Now.fp[u] # Closed => d = Now
      /\ Now.fp[u] = Closed /\ d.fp[u] # Closed => d.fp[u].pend = NoWrite
  <2>1. /\ Fits(d) /\ d.host = Now.host
        /\ \A v \in Unit \ {u} : d.fp[v] = Now.fp[v]
        /\ Now.fp[u] # Closed => d = Now
        /\ Now.fp[u] = Closed /\ d.fp[u] # Closed => d.fp[u].pend = NoWrite
    BY <1>1, OpenFields
  <2> QED  BY <2>1 DEF Fits
<1>3. CASE d.fp[u] = Closed
  <2>1. r = [dev |-> d, rc |-> 2, data |-> <<>>]
    BY <1>3 DEF DRead
  <2>2. ASSUME Alone(Now), Saved(Now, wrote), Alone(d) PROVE Saved(d, wrote)
    BY <1>1, <2>2, OpenSaves
  <2> HIDE DEF d, r
  <2> QED  BY <2>1, <2>2, <1>2 DEF r
<1>4. CASE d.fp[u] # Closed
  <2>1. /\ Fits(s) /\ s \in Device
        /\ s.fp[u] = [file |-> d.fp[u].file, pend |-> NoWrite]
        /\ \A v \in Unit \ {u} : s.fp[v] = d.fp[v]
        /\ s.host = [d.host EXCEPT ![d.fp[u].file] = Content(d, u)]
        /\ d.fp[u].file \in Image
    <3>1. /\ Fits(s)
          /\ s.fp[u] = [file |-> d.fp[u].file, pend |-> NoWrite]
          /\ \A v \in Unit \ {u} : s.fp[v] = d.fp[v]
          /\ s.host = [d.host EXCEPT ![d.fp[u].file] = Content(d, u)]
      BY <1>2, <1>4, FlushedFields
    <3>2. d.fp[u].file \in Image
      BY <1>2, <1>4, StreamOf
    <3> QED  BY <3>1, <3>2 DEF Fits
  <2>2. content \in Seq(Sector)
    <3> HIDE DEF s
    <3> QED  BY <2>1 DEF Device
  <2>3. data \in Seq(Sector)
    <3> HIDE DEF content
    <3> DEFINE m == Min({at + n, Len(content)})
    <3>1. m \in Int /\ m <= Len(content)
      BY <2>2, MinTwo
    <3> HIDE DEF m
    <3>2. \A i \in at + 1 .. m : content[i] \in Sector
      BY <2>2, <3>1
    <3>3. SubSeq(content, at + 1, m) \in Seq(Sector)
      BY <3>1, <3>2, SubSeqProperties
    <3>4. CASE works
      BY <3>3, <3>4 DEF m
    <3>5. CASE ~works
      BY <3>5
    <3> QED  BY <3>4, <3>5
  <2>4. r = [dev |-> IF good THEN s ELSE DiClose(s, u),
             rc |-> IF good THEN 0 ELSE 1, data |-> data]
    BY <1>4 DEF DRead
  <2>5. Fits(DiClose(s, u))
    BY <2>1, CloseSaves
  <2>6. ASSUME Alone(Now), Saved(Now, wrote), Alone(s) PROVE Saved(s, wrote)
    <3>1. Alone(d)
      <4> HIDE DEF s, d
      <4>1. \A v \in Unit : s.fp[v] = Closed <=> d.fp[v] = Closed
        BY <2>1, <1>4, ClosedAssumption DEF Device, Stream
      <4>2. \A v \in Unit : s.fp[v] # Closed => s.fp[v].file = d.fp[v].file
        BY <2>1
      <4> QED  BY <2>6, <4>1, <4>2 DEF Alone
    <3>2. Saved(d, wrote)
      BY <1>1, <2>6, <3>1, OpenSaves
    <3> QED  BY <3>1, <3>2, <1>2, <1>4, FlushedSaves
  <2>7. ASSUME Alone(Now), Saved(Now, wrote) PROVE Saved(DiClose(s, u), wrote)
    <3>1. CASE Now.fp[u] # Closed
      <4>1. d = Now
        BY <3>1, <1>2
      <4>2. Alone(s) /\ Saved(s, wrote)
        BY <4>1, <2>7, <1>2, <1>4, FlushedSaves
      <4> QED  BY <4>2, <2>1, CloseSaves
    <3>2. CASE Now.fp[u] = Closed
      <4>1. s = d
        <5>1. d.fp[u].pend = NoWrite
          BY <1>2, <1>4, <3>2
        <5> QED  BY <5>1 DEF Flushed
      <4> DEFINE e == [d EXCEPT !.fp[u] = Closed]
      <4>2. DiClose(s, u) = e
        <5>1. Flushed(d, u) = d
          BY <4>1
        <5>2. DiClose(d, u) = e
          BY <5>1, <1>4 DEF DiClose
        <5> QED  BY <5>2, <4>1
      <4>3. e \in Device /\ e.host = Now.host /\ e.fp = Now.fp
        <5> HIDE DEF d
        <5>1. e \in Device /\ e.host = d.host /\ e.fp = [d.fp EXCEPT ![u] = Closed]
          BY <1>2 DEF Device
        <5>2. [d.fp EXCEPT ![u] = Closed] = Now.fp
          BY <1>1, <1>2, <3>2 DEF Device
        <5> QED  BY <5>1, <5>2, <1>2
      <4> HIDE DEF e
      <4>4. Saved(e, wrote)
        BY <4>3, <1>1, <2>7, SameStreams
      <4> QED  BY <4>2, <4>4
    <3> QED  BY <3>1, <3>2
  <2> HIDE DEF s, d, r, data, good
  <2>8. r.dev \in {s, DiClose(s, u)} /\ r.rc \in 0 .. 2 /\ r.data = data
    BY <2>4
  <2>9. CASE r.dev = s
    BY <2>1, <2>3, <2>6, <2>8, <2>9 DEF r
  <2>10. CASE r.dev = DiClose(s, u)
    BY <2>3, <2>5, <2>7, <2>8, <2>10 DEF r
  <2> QED  BY <2>8, <2>9, <2>10
<1> QED  BY <1>3, <1>4

(* dio_dwrite: a stream with nothing in its buffer gets the records.       *)
LEMMA PendSaves ==
    ASSUME NEW d \in Device, NEW u \in Unit, Fits(d), d.fp[u] # Closed,
           d.fp[u].pend = NoWrite,
           NEW at \in Records, NEW n \in 1 .. MaxCount, NEW x \in [1 .. n -> Sector],
           at + n <= MaxRec
    PROVE  LET e == [d EXCEPT !.fp[u] = [file |-> d.fp[u].file,
                                         pend |-> [at |-> at, data |-> x]]] IN
           /\ Fits(e) /\ e.fp[u].file = d.fp[u].file
           /\ Alone(e) => Alone(d)
           /\ \A w \in [Image -> Seq(Sector)] : Alone(d) /\ Saved(d, w) =>
                 Saved(e, [w EXCEPT ![d.fp[u].file] = Over(@, at, x)])
<1> DEFINE p == [at |-> at, data |-> x]
           s == [file |-> d.fp[u].file, pend |-> p]
           e == [d EXCEPT !.fp[u] = s]
           f == d.fp[u].file
<1>1. d.fp[u] \in Stream /\ f \in Image
  BY StreamOf
<1>3. x \in UNION {[1 .. k -> Sector] : k \in 1 .. MaxCount} /\ x \in Seq(Sector) /\ Len(x) = n
  BY DriveAssumption
<1>4. s \in Stream
  BY <1>1, <1>3 DEF Stream
<1>5. /\ e \in Device /\ e.host = d.host
      /\ e.fp[u] = s /\ \A v \in Unit \ {u} : e.fp[v] = d.fp[v]
  <2> HIDE DEF s
  <2> QED  BY <1>4 DEF Device
<1>6. p # NoWrite
  BY WriteIsSome
<1> HIDE DEF e
<1>7. Fits(e)
  BY <1>3, <1>5, <1>6 DEF Fits
<1>8. s # Closed
  BY <1>4, ClosedAssumption
<1>9. Alone(e) => Alone(d)
  BY <1>5, <1>8 DEF Alone
<1>10. ASSUME NEW w \in [Image -> Seq(Sector)], Alone(d), Saved(d, w)
       PROVE  Saved(e, [w EXCEPT ![f] = Over(@, at, x)])
  <2> DEFINE w1 == [w EXCEPT ![f] = Over(@, at, x)]
  <2>1. w1[f] = Over(w[f], at, x) /\ \A g \in Image \ {f} : w1[g] = w[g]
    BY <1>1
  <2>2. d.host[f] = w[f]
    <3>1. Content(d, u) = d.host[f]
      BY DEF Content
    <3> QED  BY <3>1, <1>10 DEF Saved
  <2> HIDE DEF w1
  <2>3. ASSUME NEW v \in Unit, e.fp[v] # Closed PROVE Content(e, v) = w1[e.fp[v].file]
    <3>1. CASE v = u
      BY <3>1, <1>5, <1>6, <2>1, <2>2 DEF Content
    <3>2. CASE v # u
      <4>1. e.fp[v] = d.fp[v] /\ d.fp[v].file \in Image \ {f}
        BY <3>2, <1>5, <1>10, <2>3, StreamOf DEF Alone
      <4>2. Content(e, v) = Content(d, v)
        BY <4>1, <1>5 DEF Content
      <4>3. Content(d, v) = w[d.fp[v].file]
        BY <4>1, <2>3, <1>10 DEF Saved
      <4> QED  BY <4>1, <4>2, <4>3, <2>1
    <3> QED  BY <3>1, <3>2
  <2>4. ASSUME NEW g \in Image, \A v \in Unit : e.fp[v] = Closed \/ e.fp[v].file # g
        PROVE  e.host[g] = w1[g]
    <3>1. g # f
      <4>1. e.fp[u] # Closed /\ e.fp[u].file = f
        BY <1>5, <1>8
      <4> QED  BY <4>1, <2>4
    <3>2. \A v \in Unit : d.fp[v] = Closed \/ d.fp[v].file # g
      BY <3>1, <2>4, <1>5
    <3> QED  BY <3>1, <3>2, <2>1, <1>5, <1>10 DEF Saved
  <2> QED  BY <2>3, <2>4 DEF Saved, w1
<1>11. e.fp[u].file = f
  BY <1>5
<1> QED  BY <1>7, <1>9, <1>10, <1>11 DEF e

(* dio_dwrite: the image and its buffer hold what was written.             *)
LEMMA WriteSaves ==
    ASSUME TypeOK, Fits(Now), NEW u \in Unit, NEW at \in Records,
           NEW n \in 1 .. MaxCount, NEW x \in [1 .. n -> Sector], at + n <= MaxRec
    PROVE  LET r == DWrite(at, x, u)
               w == IF r.rc = 2 THEN wrote
                    ELSE [wrote EXCEPT ![r.dev.fp[u].file] = Over(@, at, x)]
           IN /\ Fits(r.dev) /\ r.rc \in 0 .. 2 /\ w \in [Image -> Seq(Sector)]
              /\ Alone(Now) /\ Saved(Now, wrote) /\ Alone(r.dev) => Saved(r.dev, w)
<1> DEFINE d == DiOpen(Now, u)
           s == Flushed(d, u)
           o == [file |-> d.fp[u].file, pend |-> [at |-> at, data |-> x]]
           e == [s EXCEPT !.fp[u] = o]
           r == DWrite(at, x, u)
           w == IF r.rc = 2 THEN wrote
                ELSE [wrote EXCEPT ![r.dev.fp[u].file] = Over(@, at, x)]
<1> SUFFICES /\ Fits(r.dev) /\ r.rc \in 0 .. 2 /\ w \in [Image -> Seq(Sector)]
             /\ Alone(Now) /\ Saved(Now, wrote) /\ Alone(r.dev) => Saved(r.dev, w)
  OBVIOUS
<1>1. cwd \in Dir /\ Now \in Device /\ wrote \in [Image -> Seq(Sector)]
  BY DEF TypeOK, DrivesTypeOK, Fits
<1>2. Fits(d) /\ d \in Device
  <2>1. Fits(d)
    BY <1>1, OpenFields
  <2> QED  BY <2>1 DEF Fits
<1>3. CASE d.fp[u] = Closed
  <2>1. r = [dev |-> d, rc |-> 2]
    BY <1>3 DEF DWrite
  <2>2. ASSUME Alone(Now), Saved(Now, wrote), Alone(d) PROVE Saved(d, wrote)
    BY <1>1, <2>2, OpenSaves
  <2> HIDE DEF d, r
  <2>3. r.rc = 2 /\ r.dev = d /\ w = wrote
    BY <2>1
  <2> HIDE DEF w
  <2> QED  BY <2>2, <2>3, <1>1, <1>2
<1>4. CASE d.fp[u] # Closed
  <2>1. /\ Fits(s) /\ s \in Device /\ d.fp[u].file \in Image
        /\ s.fp[u] = [file |-> d.fp[u].file, pend |-> NoWrite]
        /\ \A v \in Unit \ {u} : s.fp[v] = d.fp[v]
    <3>1. /\ Fits(s) /\ s.fp[u] = [file |-> d.fp[u].file, pend |-> NoWrite]
          /\ \A v \in Unit \ {u} : s.fp[v] = d.fp[v]
      BY <1>2, <1>4, FlushedFields
    <3>2. d.fp[u].file \in Image
      BY <1>2, <1>4, StreamOf
    <3> QED  BY <3>1, <3>2 DEF Fits
  <2>2. s.fp[u] # Closed /\ s.fp[u].pend = NoWrite /\ s.fp[u].file = d.fp[u].file
    <3> HIDE DEF s
    <3> QED  BY <2>1, ClosedAssumption DEF Stream
  <2>3. r = [dev |-> e, rc |-> 0]
    BY <1>4 DEF DWrite
  <2>4. /\ Fits(e) /\ e.fp[u].file = s.fp[u].file
        /\ Alone(e) => Alone(s)
        /\ \A y \in [Image -> Seq(Sector)] : Alone(s) /\ Saved(s, y) =>
              Saved(e, [y EXCEPT ![s.fp[u].file] = Over(@, at, x)])
    <3> DEFINE p == [file |-> s.fp[u].file, pend |-> [at |-> at, data |-> x]]
    <3>1. o = p
      BY <2>2
    <3> HIDE DEF s
    <3>2. LET c == [s EXCEPT !.fp[u] = p] IN
          /\ Fits(c) /\ c.fp[u].file = s.fp[u].file
          /\ Alone(c) => Alone(s)
          /\ \A y \in [Image -> Seq(Sector)] : Alone(s) /\ Saved(s, y) =>
                Saved(c, [y EXCEPT ![s.fp[u].file] = Over(@, at, x)])
      BY <2>1, <2>2, PendSaves
    <3>3. e = [s EXCEPT !.fp[u] = p]
      BY <3>1
    <3> HIDE DEF e, o, p
    <3> QED  BY <3>2, <3>3
  <2> DEFINE f == d.fp[u].file
             y == [wrote EXCEPT ![f] = Over(@, at, x)]
  <2>5. w = y
    <3>1. r.rc = 0 /\ r.dev = e
      BY <2>3
    <3>2. e.fp[u].file = f
      <4> HIDE DEF e, s
      <4> QED  BY <2>2, <2>4
    <3> HIDE DEF e, r, f
    <3> QED  BY <3>1, <3>2
  <2>6. y \in [Image -> Seq(Sector)]
    <3>1. Over(wrote[f], at, x) \in Seq(Sector)
      <4>1. x \in Seq(Sector) /\ at \in Nat /\ wrote[f] \in Seq(Sector)
        BY <1>1, <2>1, DriveAssumption DEF Records
      <4> QED  BY <4>1, OverFits
    <3> QED  BY <3>1, <1>1
  <2>7. ASSUME Alone(Now), Saved(Now, wrote), Alone(e) PROVE Saved(e, y)
    <3>1. Alone(s)
      BY <2>4, <2>7
    <3>2. Alone(d)
      <4> HIDE DEF s, d
      <4> QED  BY <3>1, <2>1, <2>2, <1>4 DEF Alone
    <3>3. Saved(d, wrote)
      BY <1>1, <2>7, <3>2, OpenSaves
    <3>4. Saved(s, wrote)
      BY <3>2, <3>3, <1>2, <1>4, FlushedSaves
    <3> HIDE DEF e, s, d
    <3> QED  BY <3>1, <3>4, <2>2, <2>4, <1>1
  <2> HIDE DEF e, r, w, y
  <2>8. r.dev = e /\ r.rc = 0
    BY <2>3
  <2>9. w \in [Image -> Seq(Sector)]
    BY <2>5, <2>6
  <2>10. Fits(r.dev) /\ r.rc \in 0 .. 2
    BY <2>4, <2>8
  <2>11. Alone(Now) /\ Saved(Now, wrote) /\ Alone(r.dev) => Saved(r.dev, w)
    BY <2>5, <2>7, <2>8
  <2> QED  BY <2>9, <2>10, <2>11
<1> QED  BY <1>3, <1>4
-----------------------------------------------------------------------------
(* What remains of the invariant for an action that goes on to device d.   *)
Types ==
    /\ cwd \in Dir /\ mem \in [1 .. MaxCount -> Sector] /\ rc \in 0 .. 2
    /\ wrote \in [Image -> Seq(Sector)]

SearchTypes ==
    /\ dsk \in Letter
    /\ dirno \in 0 .. DirMod - 1 /\ retpoi \in 0 .. DirMod - 1
    /\ opnfg \in 0 .. 1 /\ low \in Low
    /\ dtbuf \in Sector /\ block \in Entry
    /\ carry \in BOOLEAN
    /\ pc \in {"idle", "scan"}
    /\ from \in 0 .. DirMod - 1 /\ clean \in BOOLEAN

(* The drives become d.                                                    *)
LEMMA BecomesKeeps ==
    ASSUME shared \in BOOLEAN, NEW d, Becomes(d), Fits(d), Types',
           Alone(d) /\ ~shared => Saved(d, wrote')
    PROVE  /\ DrivesTypeOK' /\ Fits(Now)'
           /\ ~shared' => Alone(Now)' /\ Saved(Now, wrote)'
<1>1. /\ host' = d.host /\ disk' = d.disk /\ fp' = d.fp
      /\ shared' = (shared \/ ~Alone(d))
  BY DEF Becomes, Alone
<1>2. Now' = d /\ d \in Device
  BY <1>1 DEF Now, Fits, Device
<1>3. DrivesTypeOK'
  <2>1. shared' \in BOOLEAN
    BY <1>1
  <2>2. host' \in [Image -> Seq(Sector)] /\ disk' \in [Unit -> Name \cup {Unnamed}]
        /\ fp' \in [Unit -> {Closed} \cup Stream]
    BY <1>1, <1>2 DEF Device
  <2>3. \A f \in Image : Len(host'[f]) <= MaxRec
    BY <1>1 DEF Fits
  <2> QED  BY <2>1, <2>2, <2>3 DEF DrivesTypeOK, Types
<1>4. Fits(Now)'
  BY <1>2 DEF Fits
<1>5. ~shared' => Alone(Now)' /\ Saved(Now, wrote)'
  <2>1. Alone(d) => Alone(Now)'
    BY <1>2 DEF Alone
  <2>2. \A v \in Unit : Content(d, v) = Content(Now, v)'
    BY <1>2 DEF Content
  <2>3. Saved(d, wrote') => Saved(Now, wrote)'
    BY <1>2, <2>2 DEF Saved
  <2> QED  BY <1>1, <2>1, <2>3
<1> QED  BY <1>3, <1>4, <1>5

(* Steps that leave the drives alone.                                      *)
LEMMA DrivesUnchanged ==
    ASSUME DiskInv, UNCHANGED drives, SearchTypes'
    PROVE  DiskInv'
<1>1. Now' = Now /\ shared' = shared /\ wrote' = wrote
  BY DEF drives, Now
<1>2. TypeOK'
  BY DEF DiskInv, TypeOK, DrivesTypeOK, drives, SearchTypes
<1>3. Fits(Now)' /\ (~shared' => Alone(Now)')
  BY <1>1 DEF DiskInv, Fits, Alone
<1>4. ~shared' => Saved(Now, wrote)'
  <2>1. \A v \in Unit : Content(Now, v)' = Content(Now, v)
    BY <1>1 DEF Content
  <2> QED  BY <1>1, <2>1 DEF DiskInv, Saved
<1> QED  BY <1>2, <1>3, <1>4 DEF DiskInv

(* The types of the drives and of the search, apart.                       *)
LEMMA TypeSplit == TypeOK <=> DrivesTypeOK /\ SearchTypes
BY DEF TypeOK, SearchTypes

(* What the types say of the parts of the state.                           *)
LEMMA TypesOf == ASSUME TypeOK
                 PROVE Types /\ SearchTypes /\ shared \in BOOLEAN
BY DEF TypeOK, DrivesTypeOK, Types, SearchTypes

(* Data read to memory are sectors.                                        *)
LEMMA LoadedType ==
    ASSUME TypeOK, NEW x \in Seq(Sector)
    PROVE  Loaded(x) \in [1 .. MaxCount -> Sector]
<1>1. mem \in [1 .. MaxCount -> Sector]
  BY DEF TypeOK, DrivesTypeOK
<1>2. MaxCount \in Nat /\ Len(x) \in Nat
  BY DriveAssumption
<1> QED  BY <1>1, <1>2 DEF Loaded

(* The emulator starts with no image open.                                 *)
LEMMA InitInv == ASSUME Init PROVE DiskInv
<1>1. DrivesTypeOK /\ Fits(Now)
  <2>1. host \in [Image -> Seq(Sector)] /\ \A f \in Image : Len(host[f]) <= MaxRec
    <3>1. \A h \in UNION {[1 .. n -> Sector] : n \in 0 .. MaxRec} :
             h \in Seq(Sector) /\ Len(h) <= MaxRec
      BY DriveAssumption
    <3> QED  BY <3>1 DEF Init, DrivesInit
  <2>2. mem \in [1 .. MaxCount -> Sector]
    BY DriveAssumption DEF Init, DrivesInit
  <2>3. DrivesTypeOK
    <3>1. /\ wrote = host /\ cwd \in Dir /\ rc = 0 /\ shared = FALSE
          /\ disk = [u \in Unit |-> Unnamed] /\ fp = [u \in Unit |-> Closed]
      BY DEF Init, DrivesInit
    <3>2. disk \in [Unit -> Name \cup {Unnamed}] /\ fp \in [Unit -> {Closed} \cup Stream]
      BY <3>1
    <3>3. shared \in BOOLEAN /\ wrote \in [Image -> Seq(Sector)]
      BY <2>1, <3>1, Zenon
    <3>4. rc \in 0 .. 2 /\ cwd \in Dir
      BY <3>1
    <3> QED  BY <2>1, <2>2, <3>2, <3>3, <3>4 DEF DrivesTypeOK
  <2>4. \A u \in Unit : fp[u] = Closed
    BY DEF Init, DrivesInit
  <2> QED  BY <2>1, <2>3, <2>4 DEF Fits, Device, Now, DrivesTypeOK
<1>2. SearchTypes
  <2>1. Zero[0] \in Entry
    <3>1. 0 \in 0 .. PerRec - 1 /\ Zero \in Sector
      BY FcbAssumption, DriveAssumption
    <3> QED  BY <3>1 DEF Entry
  <2>2. dsk \in Letter
    BY FcbAssumption DEF Init
  <2>3. 0 \in 0 .. DirMod - 1 /\ Zero \in Sector
    BY FcbAssumption, DriveAssumption
  <2>4. /\ dirno = 0 /\ retpoi = 0 /\ opnfg = 1 /\ low \in Low /\ dtbuf = Zero
        /\ block = Zero[0] /\ carry = FALSE /\ pc = "idle" /\ from = 0 /\ clean = TRUE
    BY DEF Init
  <2>5. carry \in BOOLEAN /\ clean \in BOOLEAN
    BY <2>4, Zenon
  <2>6. /\ dirno \in 0 .. DirMod - 1 /\ retpoi \in 0 .. DirMod - 1
        /\ from \in 0 .. DirMod - 1 /\ opnfg \in 0 .. 1 /\ pc \in {"idle", "scan"}
    BY <2>3, <2>4
  <2>7. low \in Low /\ dtbuf \in Sector /\ block \in Entry
    BY <2>1, <2>3, <2>4
  <2> QED  BY <2>2, <2>5, <2>6, <2>7 DEF SearchTypes
<1>3. Alone(Now) /\ Saved(Now, wrote)
  BY DEF Init, DrivesInit, Alone, Saved, Now
<1> QED  BY <1>1, <1>2, <1>3, TypeSplit DEF DiskInv
-----------------------------------------------------------------------------
(* The program's and the monitor's use of the drives.                      *)

(* The drives as one value are of their type.                              *)
LEMMA NowIsDevice == ASSUME DiskInv PROVE Now \in Device /\ Fits(Now) /\ TypeOK
BY DEF DiskInv, Fits

(* The calls of a program keep the invariant,                              *)
LEMMA ReadStep ==
    ASSUME DiskInv, UNCHANGED search, NEW u \in Unit, NEW at \in Records,
           NEW n \in 1 .. MaxCount, Read(u, at, n)
    PROVE  DiskInv'
<1>1. PICK works \in BOOLEAN :
         /\ Becomes(DRead(at, n, u, works).dev)
         /\ mem' = Loaded(DRead(at, n, u, works).data)
         /\ rc' = DRead(at, n, u, works).rc
         /\ UNCHANGED <<cwd, wrote>>
  BY DEF Read
<1> DEFINE r == DRead(at, n, u, works)
<1>2. /\ Fits(r.dev) /\ r.rc \in 0 .. 2 /\ r.data \in Seq(Sector)
      /\ Alone(Now) /\ Saved(Now, wrote) /\ Alone(r.dev) => Saved(r.dev, wrote)
  <2>1. at \in Nat /\ n \in Nat
    BY DriveAssumption DEF Records
  <2> QED  BY <2>1, NowIsDevice, ReadSaves
<1> HIDE DEF r
<1>3. Types' /\ shared \in BOOLEAN
  BY <1>1, <1>2, NowIsDevice, TypesOf, LoadedType DEF Types, r
<1>4. Alone(r.dev) /\ ~shared => Saved(r.dev, wrote')
  BY <1>1, <1>2 DEF DiskInv
<1>5. SearchTypes'
  BY NowIsDevice, TypesOf DEF SearchTypes, search
<1>6. DrivesTypeOK' /\ Fits(Now)' /\ (~shared' => Alone(Now)' /\ Saved(Now, wrote)')
  BY <1>1, <1>2, <1>3, <1>4, BecomesKeeps DEF r
<1> QED  BY <1>5, <1>6, TypeSplit, PTL DEF DiskInv

(* also when they write,                                                   *)
LEMMA WriteStep ==
    ASSUME DiskInv, UNCHANGED search, NEW u \in Unit, NEW at \in Records,
           NEW n \in 1 .. MaxCount, NEW x \in [1 .. n -> Sector], Write(u, at, x)
    PROVE  DiskInv'
<1> DEFINE r == DWrite(at, x, u)
           w == IF r.rc = 2 THEN wrote
                ELSE [wrote EXCEPT ![r.dev.fp[u].file] = Over(@, at, x)]
<1>1. x \in Seq(Sector) /\ Len(x) = n
  BY DriveAssumption
<1>2. /\ at + n <= MaxRec /\ Becomes(r.dev) /\ mem' = Loaded(x)
      /\ rc' = r.rc /\ wrote' = w /\ cwd' = cwd
  BY <1>1 DEF Write
<1>3. /\ Fits(r.dev) /\ r.rc \in 0 .. 2 /\ w \in [Image -> Seq(Sector)]
      /\ Alone(Now) /\ Saved(Now, wrote) /\ Alone(r.dev) => Saved(r.dev, w)
  BY <1>2, NowIsDevice, WriteSaves
<1> HIDE DEF r, w
<1>4. Types' /\ shared \in BOOLEAN
  BY <1>1, <1>2, <1>3, NowIsDevice, TypesOf, LoadedType DEF Types
<1>5. Alone(r.dev) /\ ~shared => Saved(r.dev, wrote')
  BY <1>2, <1>3 DEF DiskInv
<1>6. SearchTypes'
  BY NowIsDevice, TypesOf DEF SearchTypes, search
<1>7. DrivesTypeOK' /\ Fits(Now)' /\ (~shared' => Alone(Now)' /\ Saved(Now, wrote)')
  BY <1>2, <1>3, <1>4, <1>5, BecomesKeeps
<1> QED  BY <1>6, <1>7, TypeSplit, PTL DEF DiskInv

(* mount, with and without a name: the stream is closed.                   *)
LEMMA RenameStep ==
    ASSUME DiskInv, UNCHANGED search, NEW u \in Unit, NEW name \in Name \cup {Unnamed},
           Becomes([DiClose(Now, u) EXCEPT !.disk[u] = name]),
           UNCHANGED <<cwd, mem, rc, wrote>>
    PROVE  DiskInv'
<1> DEFINE d == DiClose(Now, u)
           e == [d EXCEPT !.disk[u] = name]
<1>1. Fits(d) /\ \A w : Alone(Now) /\ Saved(Now, w) => Alone(d) /\ Saved(d, w)
  BY NowIsDevice, CloseSaves
<1>2. Becomes(e)
  OBVIOUS
<1> HIDE DEF d
<1>3. d \in Device
  BY <1>1 DEF Fits
<1>4. e \in Device /\ e.host = d.host /\ e.fp = d.fp
  BY <1>3 DEF Device
<1> HIDE DEF e
<1>5. Fits(e)
  BY <1>1, <1>4 DEF Fits
<1>6. ~shared => Saved(e, wrote')
  BY <1>1, <1>3, <1>4, SameStreams DEF DiskInv
<1>7. Types' /\ shared \in BOOLEAN /\ SearchTypes'
  BY NowIsDevice, TypesOf DEF Types, SearchTypes, search
<1>8. DrivesTypeOK' /\ Fits(Now)' /\ (~shared' => Alone(Now)' /\ Saved(Now, wrote)')
  BY <1>2, <1>5, <1>6, <1>7, BecomesKeeps
<1> QED  BY <1>7, <1>8, TypeSplit, PTL DEF DiskInv

(* and the commands of the monitor.                                        *)
LEMMA MonitorStep ==
    ASSUME DiskInv, UNCHANGED search, Monitor
    PROVE  DiskInv'
<1>1. ASSUME NEW u \in Unit, NEW n \in Name, Mount(u, n) PROVE DiskInv'
  BY <1>1, RenameStep DEF Mount
<1>2. ASSUME NEW u \in Unit, Unmount(u) PROVE DiskInv'
  BY <1>2, RenameStep DEF Unmount
<1>3. ASSUME NEW d \in Dir, Chdir(d) PROVE DiskInv'
  <2>1. Now' = Now /\ UNCHANGED <<host, disk, fp, mem, rc, wrote, shared>> /\ cwd' \in Dir
    BY <1>3 DEF Chdir, Now
  <2>2. TypeOK'
    BY <2>1, NowIsDevice DEF TypeOK, DrivesTypeOK, search
  <2>3. Fits(Now)' /\ (~shared' => Alone(Now)')
    BY <2>1 DEF DiskInv, Fits, Alone
  <2>4. ~shared' => Saved(Now, wrote)'
    <3>1. \A v \in Unit : Content(Now, v)' = Content(Now, v)
      BY <2>1 DEF Content
    <3> QED  BY <2>1, <3>1 DEF DiskInv, Saved
  <2> QED  BY <2>2, <2>3, <2>4 DEF DiskInv
<1> QED  BY <1>1, <1>2, <1>3 DEF Monitor

(* A sequence is a function on its places.                                 *)
LEMMA SeqIsFunction ==
    ASSUME NEW S, NEW s \in Seq(S)
    PROVE  s \in [1 .. Len(s) -> S]
OBVIOUS

(* What a program writes is a part of what it has in memory.               *)
LEMMA TransferStep ==
    ASSUME DiskInv, UNCHANGED search, Transfer
    PROVE  DiskInv'
<1>1. PICK u \in Unit, at \in Records :
         \/ \E n \in 1 .. MaxCount : Read(u, at, n)
         \/ \E n \in 1 .. MaxCount, data \in [1 .. MaxCount -> Sector] :
               Write(u, at, SubSeq(data, 1, n))
  BY DEF Transfer
<1>2. CASE \E n \in 1 .. MaxCount : Read(u, at, n)
  BY <1>2, ReadStep
<1>3. ASSUME NEW n \in 1 .. MaxCount, NEW data \in [1 .. MaxCount -> Sector],
             Write(u, at, SubSeq(data, 1, n))
      PROVE  DiskInv'
  <2>1. MaxCount \in Nat /\ \A i \in 1 .. n : data[i] \in Sector
    BY DriveAssumption
  <2>2. SubSeq(data, 1, n) \in Seq(Sector) /\ Len(SubSeq(data, 1, n)) = n
    BY <2>1, SubSeqProperties
  <2> DEFINE x == SubSeq(data, 1, n)
  <2> HIDE DEF x
  <2>3. x \in [1 .. n -> Sector]
    <3>1. x \in Seq(Sector) /\ Len(x) = n
      BY <2>2 DEF x
    <3> QED  BY <3>1, SeqIsFunction
  <2> QED  BY <1>3, <2>3, WriteStep DEF x
<1> QED  BY <1>1, <1>2, <1>3

(* A kill: all streams are gone, and with them what was written.           *)
LEMMA RestartStep ==
    ASSUME DiskInv, Restart
    PROVE  DiskInv'
<1>1. PICK start \in Dir : Kill(start)
  BY DEF Restart
<1>2. host' \in [Image -> Seq(Sector)] /\ \A f \in Image : Len(host'[f]) <= MaxRec
  <2>1. PICK lost \in SUBSET {u \in Unit : fp[u] # Closed /\ fp[u].pend # NoWrite} :
          host' = [f \in Image |->
              LET ends == {u \in Unit \ lost : fp[u] # Closed /\ fp[u].file = f}
              IN IF ends = {} THEN host[f]
                 ELSE Flushed(Now, CHOOSE u \in ends : TRUE).host[f]]
    BY <1>1 DEF Kill
  <2>2. ASSUME NEW f \in Image
        PROVE  host'[f] \in Seq(Sector) /\ Len(host'[f]) <= MaxRec
    <3> DEFINE ends == {u \in Unit \ lost : fp[u] # Closed /\ fp[u].file = f}
               v == CHOOSE u \in ends : TRUE
    <3>1. host'[f] = IF ends = {} THEN host[f] ELSE Flushed(Now, v).host[f]
      BY <2>1
    <3>2. CASE ends = {}
      BY <3>1, <3>2 DEF DiskInv, TypeOK, DrivesTypeOK
    <3>3. CASE ends # {}
      <4>1. v \in ends
        BY <3>3
      <4>2. v \in Unit /\ Now.fp[v] # Closed
        BY <4>1 DEF Now
      <4>3. Fits(Flushed(Now, v))
        <5> HIDE DEF v
        <5> QED  BY <4>2, NowIsDevice, FlushedFields
      <4> HIDE DEF v, ends
      <4> QED  BY <3>1, <3>3, <4>3 DEF Fits, Device
    <3> QED  BY <3>2, <3>3
  <2> QED  BY <2>1, <2>2
<1>3. /\ wrote' = host' /\ cwd' = start
      /\ disk' = [u \in Unit |-> Unnamed] /\ fp' = [u \in Unit |-> Closed]
      /\ mem' = [i \in DOMAIN mem |-> Zero] /\ rc' = 0 /\ shared' = FALSE
  BY <1>1 DEF Kill
<1>4. DrivesTypeOK'
  <2>1. DOMAIN mem = 1 .. MaxCount
    BY DEF DiskInv, TypeOK, DrivesTypeOK
  <2>2. mem' \in [1 .. MaxCount -> Sector]
    BY <1>3, <2>1, DriveAssumption
  <2>3. disk' \in [Unit -> Name \cup {Unnamed}] /\ fp' \in [Unit -> {Closed} \cup Stream]
    BY <1>3
  <2>4. shared' \in BOOLEAN /\ wrote' \in [Image -> Seq(Sector)]
    BY <1>2, <1>3, Zenon
  <2>5. rc' \in 0 .. 2 /\ cwd' \in Dir
    BY <1>3
  <2> QED  BY <1>2, <2>2, <2>3, <2>4, <2>5 DEF DrivesTypeOK
<1>5. \A u \in Unit : fp'[u] = Closed
  BY <1>3
<1>6. Fits(Now)'
  BY <1>2, <1>4, <1>5 DEF Fits, Device, Now, DrivesTypeOK
<1>7. Alone(Now)' /\ Saved(Now, wrote)'
  BY <1>3, <1>5 DEF Alone, Saved, Now
<1>8. SearchTypes'
  <2>1. Zero[0] \in Entry
    <3>1. 0 \in 0 .. PerRec - 1 /\ Zero \in Sector
      BY FcbAssumption, DriveAssumption
    <3> QED  BY <3>1 DEF Entry
  <2>2. 0 \in 0 .. DirMod - 1 /\ Zero \in Sector
    BY FcbAssumption, DriveAssumption
  <2>3. carry' \in BOOLEAN /\ clean' \in BOOLEAN
    <3>1. carry' = FALSE /\ clean' = TRUE
      BY DEF Restart
    <3> QED  BY <3>1, Zenon
  <2>4. /\ dirno' \in 0 .. DirMod - 1 /\ retpoi' \in 0 .. DirMod - 1
        /\ from' \in 0 .. DirMod - 1 /\ opnfg' \in 0 .. 1 /\ pc' \in {"idle", "scan"}
    BY <2>2 DEF Restart
  <2>5. low' \in Low /\ dtbuf' \in Sector /\ block' \in Entry /\ dsk' \in Letter
    BY <2>1, <2>2, FcbAssumption DEF Restart
  <2> QED  BY <2>3, <2>4, <2>5 DEF SearchTypes
<1> QED  BY <1>4, <1>6, <1>7, <1>8, TypeSplit, PTL DEF DiskInv
-----------------------------------------------------------------------------
(* #FCB.                                                                   *)

(* The positions of a search stay in a byte.                               *)
LEMMA OneBackType == ASSUME SearchTypes PROVE OneBack \in 0 .. DirMod - 1
BY FcbAssumption DEF OneBack, SearchTypes

(* The next position and the place in the record.                          *)
LEMMA IncDirnoType ==
    ASSUME SearchTypes
    PROVE  IncDirno \in 0 .. DirMod - 1 /\ InRecord \in 0 .. PerRec - 1
BY FcbAssumption DEF IncDirno, InRecord, SearchTypes

(* The first entry is a position.                                          *)
LEMMA ZeroDirno == 0 \in 0 .. DirMod - 1
BY FcbAssumption

(* An entry of a record.                                                   *)
LEMMA EntryOf ==
    ASSUME NEW s \in Sector, NEW k \in 0 .. PerRec - 1
    PROVE  s[k] \in Entry
BY DEF Entry

(* The search ends without an entry.                                       *)
LEMMA NotFoundTypes ==
    ASSUME SearchTypes, NEW n \in 0 .. DirMod - 1, NotFound(n),
           opnfg' \in 0 .. 1, dtbuf' \in Sector, UNCHANGED <<dsk, low>>
    PROVE  SearchTypes'
<1>1. carry' = TRUE /\ clean' = TRUE /\ dirno' = n /\ retpoi' = 0 /\ pc' = "idle"
      /\ from' = 0 /\ block' = block
  BY DEF NotFound, Return
<1>2. carry' \in BOOLEAN /\ clean' \in BOOLEAN
  BY <1>1, Zenon
<1> QED  BY <1>1, <1>2, ZeroDirno DEF SearchTypes

(* The steps of #FCB that do not read the disk.                            *)
LEMMA CallStep ==
    ASSUME DiskInv,
           Store \/ FcbBad \/ \E key \in {"none", "cr", "break"} : FcbTape(key) \/ Fcb(key)
    PROVE  DiskInv'
<1>1. SearchTypes /\ TypeOK
  BY NowIsDevice, TypesOf
<1>2. CASE Store
  <2>1. SearchTypes'
    BY <1>1, <1>2, ZeroDirno DEF Store, SearchTypes
  <2> QED  BY <1>2, <2>1, DrivesUnchanged DEF Store
<1>3. CASE FcbBad
  <2>1. carry' \in BOOLEAN
    BY <1>3 DEF FcbBad
  <2>2. SearchTypes'
    BY <1>1, <1>3, <2>1 DEF FcbBad, SearchTypes
  <2> QED  BY <1>3, <2>2, DrivesUnchanged DEF FcbBad
<1>4. ASSUME NEW key \in {"none", "cr", "break"}, FcbTape(key) PROVE DiskInv'
  <2>1. dirno' \in 0 .. DirMod - 1
    BY <1>1, <1>4, OneBackType DEF FcbTape, SearchTypes
  <2>2. SearchTypes'
    BY <1>1, <1>4, <2>1, FcbAssumption DEF FcbTape, SearchTypes
  <2> QED  BY <1>4, <2>2, DrivesUnchanged DEF FcbTape
<1>5. ASSUME NEW key \in {"none", "cr", "break"}, Fcb(key) PROVE DiskInv'
  <2>1. opnfg' = 0 /\ UNCHANGED <<drives, dsk, low, dtbuf>>
    BY <1>5 DEF Fcb
  <2>2. \/ NotFound(0) \/ NotFound(OneBack)
        \/ pc' = "scan" /\ from' = dirno /\ UNCHANGED <<dirno, retpoi, block, carry, clean>>
    BY <1>5 DEF Fcb
  <2>3. opnfg' \in 0 .. 1 /\ dtbuf' \in Sector /\ UNCHANGED <<dsk, low>>
    BY <1>1, <2>1 DEF SearchTypes
  <2>4. CASE NotFound(0)
    BY <1>1, <2>3, <2>4, ZeroDirno, NotFoundTypes, <2>1, DrivesUnchanged
  <2>5. CASE NotFound(OneBack)
    BY <1>1, <2>3, <2>5, OneBackType, NotFoundTypes, <2>1, DrivesUnchanged
  <2>6. CASE pc' = "scan" /\ from' = dirno /\ UNCHANGED <<dirno, retpoi, block, carry, clean>>
    <3>1. SearchTypes'
      BY <1>1, <2>1, <2>6 DEF SearchTypes
    <3> QED  BY <2>1, <3>1, DrivesUnchanged
  <2> QED  BY <2>2, <2>4, <2>5, <2>6
<1> QED  BY <1>2, <1>3, <1>4, <1>5

(* A turn of the search reads a record, or does not.                       *)
LEMMA ReadRecordStep ==
    ASSUME DiskInv, NEW buf \in Sector, NEW good \in BOOLEAN, ReadRecord(buf, good),
           dsk \in Unit \cup Reserved, SearchTypes'
    PROVE  DiskInv'
<1>1. CASE dsk \in Reserved
  BY <1>1, DrivesUnchanged DEF ReadRecord
<1>2. CASE dsk \notin Reserved
  <2> DEFINE at == dirno \div PerRec + DirPos
  <2>1. PICK works \in BOOLEAN :
          /\ Becomes(DRead(at, 1, dsk, works).dev)
          /\ rc' = DRead(at, 1, dsk, works).rc
          /\ UNCHANGED <<cwd, mem, wrote>>
    BY <1>2 DEF ReadRecord
  <2>2. at \in Nat
    BY NowIsDevice, FcbAssumption DEF TypeOK
  <2> DEFINE r == DRead(at, 1, dsk, works)
  <2> HIDE DEF at
  <2>3. /\ Fits(r.dev) /\ r.rc \in 0 .. 2
        /\ Alone(Now) /\ Saved(Now, wrote) /\ Alone(r.dev) => Saved(r.dev, wrote)
    BY <1>2, <2>2, NowIsDevice, ReadSaves
  <2> HIDE DEF r
  <2>4. Types' /\ shared \in BOOLEAN
    BY <2>1, <2>3, NowIsDevice, TypesOf DEF Types, r
  <2>5. Alone(r.dev) /\ ~shared => Saved(r.dev, wrote')
    BY <2>1, <2>3 DEF DiskInv
  <2>6. DrivesTypeOK' /\ Fits(Now)' /\ (~shared' => Alone(Now)' /\ Saved(Now, wrote)')
    BY <2>1, <2>3, <2>4, <2>5, BecomesKeeps DEF r
  <2> QED  BY <2>6, TypeSplit, PTL DEF DiskInv
<1> QED  BY <1>1, <1>2

(* A turn of the search, with what it does to the entry.                   *)
LEMMA ScanStep ==
    ASSUME DiskInv, dsk \in Unit \cup Reserved, Scan
    PROVE  DiskInv'
<1>1. PICK buf \in Sector, good \in BOOLEAN :
         LET entry == buf[InRecord]
         IN /\ ReadRecord(buf, good)
            /\ dtbuf' = buf
            /\ IF entry = End \/ IncDirno = low
                 THEN NotFound(0) /\ UNCHANGED opnfg
                 ELSE /\ dirno' = IncDirno /\ retpoi' = IncDirno
                      /\ IF entry = Free
                           THEN /\ clean' = (clean /\ good)
                                /\ UNCHANGED <<block, carry, pc, opnfg, from>>
                           ELSE /\ block' = entry /\ carry' = FALSE
                                /\ opnfg' = 1
                                /\ Return
  BY DEF Scan
<1>2. SearchTypes /\ IncDirno \in 0 .. DirMod - 1 /\ buf[InRecord] \in Entry
  BY NowIsDevice, TypesOf, IncDirnoType, EntryOf
<1>3. UNCHANGED <<dsk, low>>
  BY DEF Scan
<1>4. SearchTypes'
  <2>1. CASE NotFound(0) /\ UNCHANGED opnfg
    <3>1. opnfg' \in 0 .. 1 /\ dtbuf' \in Sector
      BY <1>1, <1>2, <2>1 DEF SearchTypes
    <3> QED  BY <1>2, <1>3, <2>1, <3>1, ZeroDirno, NotFoundTypes
  <2>2. CASE /\ dirno' = IncDirno /\ retpoi' = IncDirno
             /\ clean' = (clean /\ good)
             /\ UNCHANGED <<block, carry, pc, opnfg, from>>
    <3>1. clean' \in BOOLEAN
      BY <2>2
    <3> QED  BY <1>1, <1>2, <1>3, <2>2, <3>1 DEF SearchTypes
  <2>3. CASE /\ dirno' = IncDirno /\ retpoi' = IncDirno
             /\ block' = buf[InRecord] /\ carry' = FALSE /\ opnfg' = 1
             /\ Return
    <3>1. pc' = "idle" /\ from' = 0 /\ clean' = TRUE
      BY <2>3 DEF Return
    <3>2. clean' \in BOOLEAN /\ carry' \in BOOLEAN
      BY <2>3, <3>1, Zenon
    <3> QED  BY <1>1, <1>2, <1>3, <2>3, <3>1, <3>2, ZeroDirno DEF SearchTypes
  <2> QED  BY <1>1, <2>1, <2>2, <2>3
<1>5. ReadRecord(buf, good)
  BY <1>1
<1> QED  BY <1>4, <1>5, ReadRecordStep
-----------------------------------------------------------------------------
(* The search stays on its disk: the program stores to #DSK only between   *)
(* calls.                                                                  *)
LEMMA SearchingStep ==
    ASSUME TypeOK, Searching, [Next]_vars
    PROVE  Searching'
<1>1. CASE UNCHANGED vars
  BY <1>1 DEF vars, search, Searching
<1>2. CASE Store \/ Other(Monitor) \/ Other(Transfer) \/ Restart
  BY <1>2 DEF Store, Other, search, Restart, Searching
<1>3. CASE FcbBad \/ \E key \in {"none", "cr", "break"} : FcbTape(key)
  BY <1>3 DEF FcbBad, FcbTape, Searching
<1>4. ASSUME NEW key \in {"none", "cr", "break"}, Fcb(key) PROVE Searching'
  BY <1>4 DEF Fcb, Searching
<1>5. CASE Scan
  <2>1. pc = "scan" /\ dsk' = dsk
    BY <1>5 DEF Scan
  <2> QED  BY <2>1 DEF Searching
<1> QED  BY <1>1, <1>2, <1>3, <1>4, <1>5 DEF Next, FcbCall

(* Every step keeps the invariant.                                         *)
LEMMA NextKeeps ==
    ASSUME DiskInv, Searching, [Next]_vars
    PROVE  DiskInv'
<1>1. CASE UNCHANGED vars
  <2>1. UNCHANGED drives /\ UNCHANGED search
    BY <1>1 DEF vars
  <2>2. SearchTypes'
    BY <2>1, NowIsDevice, TypesOf DEF SearchTypes, search
  <2> QED  BY <2>1, <2>2, DrivesUnchanged
<1>2. CASE Store \/ FcbBad \/ \E key \in {"none", "cr", "break"} : FcbTape(key) \/ Fcb(key)
  BY <1>2, CallStep
<1>3. CASE Scan
  BY <1>3, ScanStep DEF Scan, Searching
<1>4. CASE Other(Monitor)
  BY <1>4, MonitorStep DEF Other
<1>5. CASE Other(Transfer)
  BY <1>5, TransferStep DEF Other
<1>6. CASE Restart
  BY <1>6, RestartStep
<1> QED  BY <1>1, <1>2, <1>3, <1>4, <1>5, <1>6 DEF Next, FcbCall

(* For any drives and images: all types, and as long as no two drives have *)
(* had one image open, each image has what was written to it but for what  *)
(* waits in the buffer of the stream its drive has (dio.c).                *)
THEOREM DiskInvariant == Spec => [](DiskInv /\ Searching)
<1>1. Init => DiskInv /\ Searching
  BY InitInv DEF Init, Searching
<1>2. DiskInv /\ Searching /\ [Next]_vars => (DiskInv /\ Searching)'
  BY NextKeeps, SearchingStep, NowIsDevice
<1> QED  BY <1>1, <1>2, PTL DEF Spec

(* Types, among them that #DIRNO stays a byte.                             *)
THEOREM DiskTypes == Spec => []TypeOK
<1>1. DiskInv => TypeOK
  BY DEF DiskInv
<1> QED  BY <1>1, DiskInvariant, PTL

(* An image that no drive has open holds all that calls wrote to it, after *)
(* any transfers, errors, mounts, changes of directory and searches; a     *)
(* kill alone loses what was not written out.                              *)
THEOREM ClosedImagesAreSaved == Spec => []SavedIsOnHost
<1>1. DiskInv => SavedIsOnHost
  <2> SUFFICES ASSUME DiskInv, ~shared, NEW f \in Image, Using(f) = {}
               PROVE  host[f] = wrote[f]
    BY DEF SavedIsOnHost
  <2>1. \A u \in Unit : Now.fp[u] = Closed \/ Now.fp[u].file # f
    BY DEF Using, Now
  <2>2. Now.host[f] = wrote[f]
    BY <2>1 DEF DiskInv, Saved
  <2> QED  BY <2>2 DEF Now
<1> QED  BY <1>1, DiskInvariant, PTL
(* What a read that succeeds returns: the records as they were written.    *)
LEMMA ReadGives ==
    ASSUME DiskInv, NEW u \in Unit, NEW at \in Nat, NEW n \in Nat \ {0},
           NEW works \in BOOLEAN, Becomes(DRead(at, n, u, works).dev),
           ~shared', DRead(at, n, u, works).rc = 0
    PROVE  LET f == fp'[u].file
               data == DRead(at, n, u, works).data
           IN /\ fp'[u] # Closed /\ f \in Image
              /\ fp[u] # Closed => f = fp[u].file
              /\ at + n <= Len(wrote[f]) /\ Len(data) = n
              /\ \A i \in 1 .. n : data[i] = wrote[f][at + i]
<1> DEFINE d == DiOpen(Now, u)
           s == Flushed(d, u)
           content == s.host[s.fp[u].file]
           good == works /\ at + n <= Len(content)
           r == DRead(at, n, u, works)
<1>1. Becomes(r.dev) /\ r.rc = 0 /\ ~shared'
  OBVIOUS
<1>2. at \in Nat /\ n \in Nat /\ n >= 1
  OBVIOUS
<1>3. d.fp[u] # Closed
  <2>1. CASE d.fp[u] = Closed
    <3>1. r.rc = 2
      BY <2>1 DEF DRead
    <3> HIDE DEF r, d
    <3> QED  BY <1>1, <3>1
  <2> QED  BY <2>1
<1>4. good /\ r.dev = s /\ r.data = SubSeq(content, at + 1, Min({at + n, Len(content)}))
  <2>1. r = [dev |-> IF good THEN s ELSE DiClose(s, u), rc |-> IF good THEN 0 ELSE 1,
             data |-> IF works THEN SubSeq(content, at + 1, Min({at + n, Len(content)}))
                      ELSE <<>>]
    BY <1>3 DEF DRead
  <2>2. r.rc = 0
    BY <1>1
  <2> DEFINE data == IF works THEN SubSeq(content, at + 1, Min({at + n, Len(content)}))
                     ELSE <<>>
             closed == DiClose(s, u)
  <2>3. r = [dev |-> IF good THEN s ELSE closed, rc |-> IF good THEN 0 ELSE 1, data |-> data]
    BY <2>1
  <2> HIDE DEF good, data, closed, r, s
  <2>4. good
    BY <2>2, <2>3
  <2>5. r.dev = s /\ r.data = data
    BY <2>3, <2>4
  <2>6. works
    BY <2>4 DEF good
  <2>7. data = SubSeq(content, at + 1, Min({at + n, Len(content)}))
    BY <2>6 DEF data
  <2> QED  BY <2>4, <2>5, <2>7
<1>5. Fits(d) /\ d \in Device
  <2>1. Fits(d)
    BY NowIsDevice, OpenFields DEF TypeOK, DrivesTypeOK
  <2> QED  BY <2>1 DEF Fits
<1>6. /\ fp' = s.fp /\ s.fp[u].file = d.fp[u].file /\ d.fp[u].file \in Image
      /\ s \in Device
      /\ Alone(s)
  <2>1. s.fp[u] = [file |-> d.fp[u].file, pend |-> NoWrite] /\ Fits(s)
    BY <1>3, <1>5, FlushedFields
  <2>2. d.fp[u].file \in Image
    BY <1>3, <1>5, StreamOf
  <2>3. Becomes(s)
    BY <1>1, <1>4
  <2> HIDE DEF s
  <2>4. fp' = s.fp /\ Alone(s)
    BY <2>3 DEF Becomes, Alone
  <2> QED  BY <2>1, <2>2, <2>4 DEF Fits
<1>7. content = wrote[d.fp[u].file]
  <2>1. Alone(d)
    <3>1. /\ s.fp[u] = [file |-> d.fp[u].file, pend |-> NoWrite]
          /\ \A v \in Unit \ {u} : s.fp[v] = d.fp[v]
      BY <1>3, <1>5, FlushedFields
    <3> HIDE DEF s, d
    <3>2. s.fp[u] # Closed
      BY <1>6, <3>1, ClosedAssumption DEF Stream
    <3> QED  BY <1>6, <3>1, <3>2 DEF Alone
  <2>2. ~shared
    BY <1>1 DEF Becomes
  <2>3. Saved(d, wrote)
    BY <2>1, <2>2, NowIsDevice, OpenSaves DEF DiskInv, TypeOK, DrivesTypeOK
  <2>4. s.host[d.fp[u].file] = wrote[d.fp[u].file]
    BY <2>1, <2>3, <1>3, <1>5, FlushedSaves
  <2> QED  BY <2>4, <1>6
<1>8. content \in Seq(Sector)
  BY <1>6, <1>7, NowIsDevice DEF TypeOK, DrivesTypeOK
<1>9. at + n <= Len(content)
  BY <1>4
<1> DEFINE x == SubSeq(content, at + 1, at + n)
<1>10. r.data = x
  <2>1. Min({at + n, Len(content)}) = at + n
    <3> HIDE DEF content
    <3> QED  BY <1>2, <1>8, <1>9, MinTwo
  <2> QED  BY <1>4, <2>1
<1> HIDE DEF content, s, d
<1>11. Len(x) = n /\ \A i \in 1 .. n : x[i] = content[at + i]
  <2>1. \A i \in at + 1 .. at + n : content[i] \in Sector
    BY <1>2, <1>8, <1>9
  <2>2. /\ Len(x) = IF at + 1 <= at + n THEN at + n - (at + 1) + 1 ELSE 0
        /\ \A i \in 1 .. at + n - (at + 1) + 1 : x[i] = content[at + 1 + i - 1]
    BY <1>2, <2>1, SubSeqProperties
  <2>3. at + n - (at + 1) + 1 = n /\ \A i \in 1 .. n : at + 1 + i - 1 = at + i
    BY <1>2
  <2> HIDE DEF x
  <2> QED  BY <1>2, <2>2, <2>3
<1> HIDE DEF x
<1>12. fp'[u] # Closed /\ fp'[u].file = d.fp[u].file
  <2>1. s.fp[u] = [file |-> d.fp[u].file, pend |-> NoWrite]
    BY <1>3, <1>5, FlushedFields DEF s
  <2>2. s.fp[u] # Closed
    BY <1>6, <2>1, ClosedAssumption DEF Stream
  <2> QED  BY <1>6, <2>2
<1>13. fp[u] # Closed => d.fp[u].file = fp[u].file
  <2>1. Now.fp[u] # Closed => d = Now
    BY NowIsDevice, OpenFields DEF TypeOK, DrivesTypeOK, d
  <2> QED  BY <2>1 DEF Now
<1>14. at + n <= Len(wrote[fp'[u].file]) /\ Len(r.data) = n
       /\ \A i \in 1 .. n : r.data[i] = wrote[fp'[u].file][at + i]
  <2> HIDE DEF r, good
  <2> QED  BY <1>7, <1>9, <1>10, <1>11, <1>12
<1>15. fp'[u] # Closed /\ fp'[u].file \in Image
       /\ (fp[u] # Closed => fp'[u].file = fp[u].file)
  BY <1>6, <1>12, <1>13
<1> QED  BY <1>14, <1>15

(* So the memory holds what was written to the image last.                 *)
LEMMA ReadReturns ==
    ASSUME DiskInv, NEW u \in Unit, NEW at \in Records, NEW n \in 1 .. MaxCount,
           Read(u, at, n), ~shared', rc' = 0, fp'[u] # Closed
    PROVE  \A i \in 1 .. n : /\ at + i <= Len(wrote[fp'[u].file])
                             /\ mem'[i] = wrote[fp'[u].file][at + i]
<1>1. PICK works \in BOOLEAN :
         /\ Becomes(DRead(at, n, u, works).dev)
         /\ mem' = Loaded(DRead(at, n, u, works).data)
         /\ rc' = DRead(at, n, u, works).rc
  BY DEF Read
<1> DEFINE data == DRead(at, n, u, works).data
           w == wrote[fp'[u].file]
<1>2. at \in Nat /\ n \in Nat \ {0} /\ n <= MaxCount /\ MaxCount \in Nat
  BY DriveAssumption DEF Records
<1>3. /\ fp'[u].file \in Image /\ at + n <= Len(w) /\ Len(data) = n
      /\ \A i \in 1 .. n : data[i] = w[at + i]
  BY <1>1, <1>2, ReadGives
<1>4. DOMAIN mem = 1 .. MaxCount /\ w \in Seq(Sector)
  BY <1>3, NowIsDevice DEF TypeOK, DrivesTypeOK
<1>5. mem' = Loaded(data)
  BY <1>1
<1> HIDE DEF data, w
<1> SUFFICES \A i \in 1 .. n : at + i <= Len(w) /\ mem'[i] = w[at + i]
  BY DEF w
<1> QED  BY <1>2, <1>3, <1>4, <1>5 DEF Loaded

(* A read gives the program what was last written to the image, through    *)
(* buffers, mounts and whatever was opened and closed in between.          *)
THEOREM ReadsReturnLatest == Spec => ReadsLatest
<1> DEFINE A ==
      \A u \in Unit, at \in Records, n \in 1 .. MaxCount :
         \/ shared' \/ rc' # 0 \/ fp'[u] = Closed
         \/ \A i \in 1 .. n : /\ at + i <= Len(wrote[fp'[u].file])
                             /\ mem'[i] = wrote[fp'[u].file][at + i]
         \/ ~Read(u, at, n)
<1>1. DiskInv => A
  BY ReadReturns
<1>2. ReadsLatest <=> [][A]_drives
  BY DEF ReadsLatest
<1> HIDE DEF A
<1> QED  BY <1>1, <1>2, DiskInvariant, PTL

-----------------------------------------------------------------------------
(* What #FCB finds.                                                        *)

(* The remainder where it goes around at most once.                        *)
LEMMA Around ==
    ASSUME NEW m \in Nat \ {0}, NEW x \in 0 .. m - 1
    PROVE  x % m = x /\ (x + m) % m = x /\ (x + 1) % m = IF x + 1 = m THEN 0 ELSE x + 1
<1>1. x % m = x /\ (x + m) % m = x
  OBVIOUS
<1>2. m % m = 0
  <2>1. (0 + m) % m = 0
    OBVIOUS
  <2> QED  BY <2>1
<1>3. CASE x + 1 = m
  BY <1>1, <1>2, <1>3
<1>4. CASE x + 1 # m
  <2>1. x + 1 \in 0 .. m - 1
    BY <1>4
  <2>2. (x + 1) % m = x + 1
    BY <2>1
  <2> QED  BY <1>1, <1>4, <2>2
<1> QED  BY <1>3, <1>4

(* Two entries are not at one distance from where the search began, and    *)
(* behind an entry is the one that is one further, or where it began.      *)
LEMMA DistanceFacts ==
    ASSUME SearchTypes
    PROVE  /\ \A k \in 0 .. DirMod - 1 : Distance(k) \in Nat
           /\ \A k, j \in 0 .. DirMod - 1 : Distance(k) = Distance(j) => k = j
           /\ Distance(from) = 0
           /\ IncDirno # from => Distance(IncDirno) = Distance(dirno) + 1
<1>1. DirMod \in Nat \ {0} /\ from \in 0 .. DirMod - 1 /\ dirno \in 0 .. DirMod - 1
  BY FcbAssumption DEF SearchTypes
<1>2. ASSUME NEW k \in 0 .. DirMod - 1
      PROVE  Distance(k) = IF k >= from THEN k - from ELSE k + DirMod - from
  <2>1. CASE k >= from
    <3>1. k - from \in 0 .. DirMod - 1 /\ k + DirMod - from = (k - from) + DirMod
      BY <1>1, <2>1
    <3>2. ((k - from) + DirMod) % DirMod = k - from
      BY <1>1, <3>1, Around
    <3> QED  BY <2>1, <3>1, <3>2 DEF Distance
  <2>2. CASE ~(k >= from)
    <3>1. k + DirMod - from \in 0 .. DirMod - 1
      BY <1>1, <2>2
    <3>2. (k + DirMod - from) % DirMod = k + DirMod - from
      BY <1>1, <3>1, Around
    <3> QED  BY <2>2, <3>2 DEF Distance
  <2> QED  BY <2>1, <2>2
<1>3. IncDirno = IF dirno + 1 = DirMod THEN 0 ELSE dirno + 1
  BY <1>1, Around DEF IncDirno
<1>4. IncDirno \in 0 .. DirMod - 1
  BY <1>1, <1>3
<1>5. IncDirno # from => Distance(IncDirno) = Distance(dirno) + 1
  BY <1>1, <1>2, <1>3, <1>4
<1> QED  BY <1>1, <1>2, <1>5

(* A turn that reads its record has the entry of the image the drive has   *)
(* open, which stays open.                                                 *)
LEMMA TurnReads ==
    ASSUME DiskInv, NEW buf \in Sector, NEW good \in BOOLEAN,
           ReadRecord(buf, good), dsk \in Unit, ~shared', good \/ rc' = 0
    PROVE  /\ fp'[dsk] # Closed
           /\ fp[dsk] # Closed => fp'[dsk].file = fp[dsk].file
           /\ dirno \in Listed(fp'[dsk].file)
           /\ EntryAt(fp'[dsk].file, dirno) = buf[InRecord]
           /\ wrote' = wrote /\ ~shared /\ good
<1> DEFINE at == dirno \div PerRec + DirPos
<1>1. PICK works \in BOOLEAN :
        LET r == DRead(at, 1, dsk, works)
        IN /\ buf = IF r.data = <<>> THEN dtbuf ELSE r.data[1]
           /\ good = (r.rc = 0)
           /\ Becomes(r.dev)
           /\ rc' = r.rc
           /\ UNCHANGED <<cwd, mem, wrote>>
  BY FcbAssumption DEF ReadRecord
<1> DEFINE r == DRead(at, 1, dsk, works)
<1>2. /\ buf = IF r.data = <<>> THEN dtbuf ELSE r.data[1]
      /\ (good <=> r.rc = 0) /\ Becomes(r.dev) /\ rc' = r.rc /\ wrote' = wrote
      /\ works \in BOOLEAN
  BY <1>1
<1>3. dirno \in 0 .. DirMod - 1 /\ at \in Nat /\ 1 \in Nat \ {0}
  BY NowIsDevice, FcbAssumption DEF TypeOK
<1>4. r.rc = 0 /\ good
  BY <1>2
<1> DEFINE f == fp'[dsk].file
<1> HIDE DEF at
<1>5. /\ fp'[dsk] # Closed /\ f \in Image
      /\ fp[dsk] # Closed => f = fp[dsk].file
      /\ at + 1 <= Len(wrote[f]) /\ Len(r.data) = 1
      /\ \A i \in 1 .. 1 : r.data[i] = wrote[f][at + i]
  <2>1. works \in BOOLEAN /\ at \in Nat /\ 1 \in Nat \ {0} /\ dsk \in Unit
    BY <1>2, <1>3
  <2>2. Becomes(DRead(at, 1, dsk, works).dev) /\ DRead(at, 1, dsk, works).rc = 0
    BY <1>2, <1>4
  <2>3. PICK u \in Unit, a \in Nat, n \in Nat \ {0} : u = dsk /\ a = at /\ n = 1
    BY <2>1
  <2> DEFINE data == DRead(a, n, u, works).data
  <2>4. Becomes(DRead(a, n, u, works).dev) /\ DRead(a, n, u, works).rc = 0
    BY <2>2, <2>3
  <2>5. fp'[u] # Closed /\ fp'[u].file \in Image
    BY <2>1, <2>4, ReadGives
  <2>6. fp[u] # Closed => fp'[u].file = fp[u].file
    BY <2>1, <2>4, ReadGives
  <2>7. a + n <= Len(wrote[fp'[u].file]) /\ Len(data) = n
    BY <2>1, <2>4, ReadGives
  <2>8. \A i \in 1 .. n : data[i] = wrote[fp'[u].file][a + i]
    BY <2>1, <2>4, ReadGives
  <2> QED  BY <2>3, <2>5, <2>6, <2>7, <2>8
<1> HIDE DEF r, f
<1>6. buf = wrote[f][at + 1]
  <2>1. r.data # <<>>
    BY <1>5
  <2>2. 1 \in 1 .. 1
    OBVIOUS
  <2>3. r.data[1] = wrote[f][at + 1]
    BY <1>5, <2>2
  <2> QED  BY <1>2, <2>1, <2>3
<1>7. dirno \in Listed(f)
  <2>1. Len(wrote[f]) \in Nat
    BY <1>5, NowIsDevice DEF TypeOK, DrivesTypeOK
  <2>2. dirno \div PerRec + DirPos < Len(wrote[f])
    BY <1>3, <1>5, <2>1 DEF at
  <2> QED  BY <1>3, <2>2 DEF Listed
<1>8. EntryAt(f, dirno) = buf[InRecord]
  BY <1>6 DEF EntryAt, InRecord, at
<1>9. ~shared
  BY <1>2 DEF Becomes
<1> QED  BY <1>2, <1>4, <1>5, <1>7, <1>8, <1>9 DEF f

(* Entry k of the image the drive has open was passed.                     *)
Clear(f, k) == k \in Listed(f) \ (Used(f) \cup Ends(f))

(* Every step of a search passes a free entry that is not the last.        *)
LEMMA PassedStep ==
    ASSUME DiskInv, Searching, Passed, [Next]_vars
    PROVE  Passed'
<1>1. SearchTypes /\ SearchTypes'
  <2>1. DiskInv'
    BY NextKeeps
  <2> QED  BY <2>1, NowIsDevice, TypesOf, TypeSplit, PTL DEF DiskInv
<1>2. CASE UNCHANGED vars
  BY <1>2 DEF vars, drives, search, Passed, Distance, Listed, Used, Ends, EntryAt
<1>3. CASE Other(Monitor) \/ Other(Transfer) \/ Store \/ FcbBad
             \/ \E key \in {"none", "cr", "break"} : FcbTape(key)
  <2>1. pc' # "scan"
    BY <1>3 DEF Other, search, Store, FcbBad, FcbTape
  <2> QED  BY <2>1 DEF Passed
<1>4. CASE Restart
  BY <1>4 DEF Restart, Passed
<1>5. ASSUME NEW key \in {"none", "cr", "break"}, Fcb(key) PROVE Passed'
  <2>1. pc' # "scan" \/ dirno' = from'
    BY <1>5 DEF Fcb, NotFound, Return
  <2> QED  BY <2>1 DEF Passed
<1>6. CASE Scan
  <2> SUFFICES ASSUME pc' = "scan", clean', ~shared', dsk' \in Unit, dirno' # from'
               PROVE  /\ fp'[dsk'] # Closed
                      /\ \A k \in 0 .. DirMod - 1 : Distance(k)' < Distance(dirno)' =>
                            Clear(fp[dsk].file, k)'
    BY DEF Passed, Clear
  <2>1. PICK buf \in Sector, good \in BOOLEAN :
          /\ ReadRecord(buf, good)
          /\ IF buf[InRecord] = End \/ IncDirno = low
               THEN NotFound(0)
               ELSE /\ dirno' = IncDirno
                    /\ IF buf[InRecord] = Free
                         THEN clean' = (clean /\ good) /\ from' = from
                         ELSE Return
    BY <1>6 DEF Scan
  <2>2. ~NotFound(0) /\ ~Return
    BY DEF NotFound, Return
  <2>3. /\ buf[InRecord] # End /\ IncDirno # low /\ buf[InRecord] = Free
        /\ dirno' = IncDirno /\ from' = from
        /\ clean' = (clean /\ good)
    BY <2>1, <2>2
  <2>4. clean /\ good
    BY <2>3, Zenon
  <2>5. pc = "scan" /\ dsk' = dsk /\ dsk \in Unit /\ low' = low
    BY <1>6 DEF Scan
  <2> DEFINE f == fp'[dsk].file
  <2>6. /\ fp'[dsk] # Closed
        /\ fp[dsk] # Closed => f = fp[dsk].file
        /\ dirno \in Listed(f) /\ EntryAt(f, dirno) = buf[InRecord]
        /\ wrote' = wrote /\ ~shared
    BY <2>1, <2>4, <2>5, TurnReads
  <2> HIDE DEF f
  <2>7. Clear(f, dirno)
    BY <2>3, <2>6 DEF Clear, Used, Ends, IncDirno
  <2>8. ASSUME NEW k \in 0 .. DirMod - 1, Distance(k)' < Distance(dirno)'
        PROVE  Clear(f, k)
    <3>1. Distance(k)' = Distance(k) /\ Distance(dirno)' = Distance(IncDirno)
      BY <2>3 DEF Distance
    <3>2. /\ Distance(IncDirno) = Distance(dirno) + 1
          /\ Distance(k) \in Nat /\ Distance(dirno) \in Nat
          /\ Distance(k) = Distance(dirno) => k = dirno
          /\ Distance(from) = 0
      BY <1>1, <2>3, DistanceFacts DEF SearchTypes
    <3>3. Distance(k) < Distance(dirno) \/ k = dirno
      BY <2>8, <3>1, <3>2
    <3>4. CASE k = dirno
      BY <2>7, <3>4
    <3>5. CASE Distance(k) < Distance(dirno)
      <4>1. dirno # from
        BY <3>2, <3>5
      <4>2. fp[dsk] # Closed /\ Clear(fp[dsk].file, k)
        BY <2>4, <2>5, <2>6, <3>5, <4>1 DEF Passed, Clear
      <4> QED  BY <2>6, <4>2
    <3> QED  BY <3>3, <3>4, <3>5
  <2>9. \A k : Clear(fp[dsk].file, k)' <=> Clear(f, k)
    BY <2>5, <2>6 DEF f, Clear, Listed, Used, Ends, EntryAt
  <2> QED  BY <2>5, <2>6, <2>8, <2>9
<1> QED  BY <1>2, <1>3, <1>4, <1>5, <1>6 DEF Next, FcbCall

(* So the turn that ends the search ends it at the first entry it should.  *)
LEMMA EndIsFirst == ASSUME DiskInv, Passed PROVE FoundNext
<1> SUFFICES ASSUME Scan, pc' = "idle", clean, rc' = 0, ~shared', dsk \in Unit
             PROVE  LET f == fp'[dsk].file
                        k == First(Ends(f) \cup Used(f))
                    IN IF k \in Ends(f) THEN carry' /\ dirno' = 0
                       ELSE ~carry' /\ block' = EntryAt(f, k)
                            /\ dirno' = (k + 1) % DirMod
  BY DEF FoundNext
<1>1. PICK buf \in Sector, good \in BOOLEAN :
        /\ ReadRecord(buf, good)
        /\ IF buf[InRecord] = End \/ IncDirno = low
             THEN NotFound(0)
             ELSE /\ dirno' = IncDirno
                  /\ IF buf[InRecord] = Free
                       THEN UNCHANGED pc
                       ELSE block' = buf[InRecord] /\ carry' = FALSE
  BY DEF Scan
<1>2. pc = "scan" /\ SearchTypes
  BY NowIsDevice, TypesOf DEF Scan
<1> DEFINE f == fp'[dsk].file
           S == Ends(f) \cup Used(f)
<1>3. /\ fp[dsk] # Closed => f = fp[dsk].file
      /\ dirno \in Listed(f) /\ EntryAt(f, dirno) = buf[InRecord] /\ ~shared
  BY <1>1, TurnReads
<1> HIDE DEF f
<1>4. dirno \in Ends(f) <=> buf[InRecord] = End \/ IncDirno = low
  BY <1>3 DEF Ends, IncDirno
<1>5. dirno \in S
  <2>1. CASE dirno \in Ends(f)
    BY <2>1
  <2>2. CASE dirno \notin Ends(f)
    <3>1. buf[InRecord] # Free
      BY <1>1, <1>2, <1>4, <2>2
    <3> QED  BY <1>3, <2>2, <3>1 DEF Used
  <2> QED  BY <2>1, <2>2
<1>6. \A j \in S : j \in 0 .. DirMod - 1
  BY DEF Ends, Used, Listed
<1>7. ASSUME NEW j \in S PROVE Distance(dirno) <= Distance(j)
  <2>1. Distance(j) \in Nat /\ Distance(dirno) \in Nat /\ Distance(from) = 0
    BY <1>2, <1>6, DistanceFacts DEF SearchTypes
  <2>2. CASE dirno = from
    BY <2>1, <2>2
  <2>3. CASE dirno # from
    <3>1. fp[dsk] # Closed /\ (Distance(j) < Distance(dirno) => Clear(f, j))
      BY <1>2, <1>3, <1>6, <2>3 DEF Passed, Clear
    <3>2. ~Clear(f, j)
      BY DEF Clear
    <3> QED  BY <2>1, <3>1, <3>2
  <2> QED  BY <2>2, <2>3
<1>8. First(S) = dirno
  <2>1. \E k \in S : \A j \in S : Distance(k) <= Distance(j)
    BY <1>5, <1>7
  <2>2. First(S) \in S /\ \A j \in S : Distance(First(S)) <= Distance(j)
    BY <2>1 DEF First
  <2>3. Distance(First(S)) <= Distance(dirno) /\ Distance(dirno) <= Distance(First(S))
    BY <1>5, <1>7, <2>2
  <2>4. /\ Distance(First(S)) \in Nat /\ Distance(dirno) \in Nat
        /\ Distance(First(S)) = Distance(dirno) => First(S) = dirno
    BY <1>2, <1>6, <2>2, DistanceFacts DEF SearchTypes
  <2> HIDE DEF S
  <2> QED  BY <2>3, <2>4
<1>9. CASE dirno \in Ends(f)
  <2>1. carry' /\ dirno' = 0
    BY <1>1, <1>4, <1>9 DEF NotFound
  <2> QED  BY <1>8, <1>9, <2>1 DEF f
<1>10. CASE dirno \notin Ends(f)
  <2>1. dirno' = IncDirno /\ block' = buf[InRecord] /\ carry' = FALSE
    BY <1>1, <1>2, <1>4, <1>10
  <2> QED  BY <1>3, <1>8, <1>10, <2>1 DEF f, IncDirno
<1> QED  BY <1>9, <1>10

(* On any disk that can be read #FCB finds the next entry, whatever the    *)
(* directory holds and wherever its records and the byte #DIRNO end.       *)
THEOREM FcbFindsNextEntry == Spec => FindsNextEntry
<1>1. Init => Passed
  BY DEF Init, Passed
<1>2. DiskInv /\ Searching /\ Passed /\ [Next]_vars => Passed'
  BY PassedStep
<1>3. DiskInv /\ Passed => [FoundNext]_vars
  BY EndIsFirst
<1> QED  BY <1>1, <1>2, <1>3, DiskInvariant, PTL DEF Spec, FindsNextEntry
=============================================================================
