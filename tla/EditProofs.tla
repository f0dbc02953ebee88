----------------------------- MODULE EditProofs -----------------------------
(***************************************************************************)
(* That the line editor keeps its screen sound and shown, for every size   *)
(* of the screen, of the terminal, of a tab and of the alphabet.  The      *)
(* lemmas go operator by operator; the loops of scr_insert and scr_yank    *)
(* are followed by induction over the characters they have put.            *)
(***************************************************************************)
EXTENDS MCEdit, ScreenProofs, SequenceTheorems

-----------------------------------------------------------------------------
(* Quotients.                                                              *)

LEMMA DivFacts ==
    ASSUME NEW n \in Nat, NEW w \in Nat \ {0}
    PROVE  /\ n = (n \div w) * w + (n % w)
           /\ n \div w \in Nat /\ n % w \in 0 .. w - 1
           /\ \A k \in Nat : n < k * w => n \div w < k
  <1>1. /\ n = (n \div w) * w + (n % w)
        /\ n \div w \in Nat /\ n % w \in 0 .. w - 1
    OBVIOUS
  <1>2. ASSUME NEW k \in Nat, n < k * w PROVE n \div w < k
    BY <1>1, <1>2
  <1> QED BY <1>1, <1>2

LEMMA DivOfSum ==
    ASSUME NEW w \in Nat \ {0}, NEW q \in Nat, NEW r \in 0 .. w - 1
    PROVE  /\ q * w + r \in Nat
           /\ (q * w + r) \div w = q /\ (q * w + r) % w = r
  OBVIOUS

LEMMA ProductsGrow ==
    ASSUME NEW a \in Nat, NEW b \in Nat, NEW c \in Nat, NEW d \in Nat,
           a <= c, b <= d
    PROVE  a * b <= c * d /\ a * b \in Nat
  OBVIOUS

(* Counting up: what holds of 0, and with n of n + 1, holds up to k.       *)
LEMMA CountingUp ==
    ASSUME NEW k \in Nat, NEW S, 0 \in S,
           \A n \in 0 .. k - 1 : n \in S => n + 1 \in S
    PROVE  \A n \in 0 .. k : n \in S
  <1> DEFINE T == {n \in 0 .. k : n \notin S}
  <1>1. SUFFICES ASSUME T # {} PROVE FALSE
    OBVIOUS
  <1>2. T \subseteq Nat
    OBVIOUS
  <1>3. Min(T) \in T /\ \A n \in T : Min(T) <= n
    BY <1>1, <1>2, MinFacts
  <1> DEFINE m == Min(T)
  <1> HIDE DEF m
  <1>4. m \in 0 .. k /\ m \notin S /\ m # 0
    BY <1>3 DEF m
  <1>5. m - 1 \in S
    BY <1>3, <1>4 DEF m
  <1> QED BY <1>4, <1>5

-----------------------------------------------------------------------------
(* The group of joined rows the cursor is in.                              *)

(* The row e ends the group of row y.                                      *)
Ends(cont, y, e) ==
    /\ e \in Rows /\ y <= e
    /\ \A r \in y .. e - 1 : r \in cont
    /\ e = VH - 1 \/ e \notin cont

(* Only one row does.                                                      *)
LEMMA EndIs ==
    ASSUME NEW cont, NEW y \in Rows, NEW e, Ends(cont, y, e)
    PROVE  GroupEnd(cont, y) = e
  <1>1. /\ GroupEnd(cont, y) \in Rows /\ GroupEnd(cont, y) >= y
        /\ GroupEnd(cont, y) = VH - 1 \/ GroupEnd(cont, y) \notin cont
        /\ \A r \in y .. GroupEnd(cont, y) - 1 : r \in cont
    BY GroupEndFacts
  <1> DEFINE g == GroupEnd(cont, y)
  <1> HIDE DEF g
  <1>2. ~(g < e)
    BY <1>1, SizeAssumption DEF Ends, Rows, g
  <1>3. ~(e < g)
    BY <1>1, SizeAssumption DEF Ends, Rows, g
  <1> QED BY <1>1, <1>2, <1>3, SizeAssumption DEF Ends, Rows, g

LEMMA EndRowFacts ==
    ASSUME NEW s \in Screen
    PROVE  /\ Ends(s.cont, s.vy, EndRow(s))
           /\ EndRow(s) \in Rows /\ s.vy \in Rows /\ s.vy <= EndRow(s)
  <1>1. s.vy \in Rows
    BY DEF Screen
  <1> QED
    BY <1>1, GroupEndFacts, SizeAssumption DEF EndRow, Ends, Rows

LEMMA TopRowFacts ==
    ASSUME NEW s \in Screen
    PROVE  TopRow(s) \in Rows /\ TopRow(s) <= s.vy
  <1> DEFINE S == {r \in 0 .. s.vy : r = 0 \/ r - 1 \notin s.cont}
  <1>1. s.vy \in Rows /\ s.vy \in Nat
    BY SizeAssumption DEF Screen, Rows
  <1>2. S \subseteq 0 .. s.vy /\ 0 \in S
    BY <1>1
  <1>3. Max(S) \in S
    BY <1>1, <1>2, MaxFacts
  <1>4. TopRow(s) = Max(S)
    BY DEF TopRow
  <1> QED BY <1>1, <1>3, <1>4, SizeAssumption DEF Rows

-----------------------------------------------------------------------------
(* The text of the rows.                                                   *)

(* The rows a to b give one character for each of their cells.             *)
LEMMA TextFacts ==
    ASSUME NEW s, Sound(s), NEW a \in Rows, NEW b \in Rows, a <= b
    PROVE  /\ TextOf(s, a, b) \in Seq(Char)
           /\ Len(TextOf(s, a, b)) = (b - a + 1) * s.vw
           /\ (b - a + 1) * s.vw \in Nat
           /\ (b - a + 1) * s.vw <= VH * MaxW
           /\ \A i \in 1 .. (b - a + 1) * s.vw :
                 TextOf(s, a, b)[i] = s.chr[a + (i - 1) \div s.vw][(i - 1) % s.vw]
           /\ \A r \in a .. b, x \in ScreenCols(s) :
                 /\ (r - a) * s.vw + x + 1 \in 1 .. (b - a + 1) * s.vw
                 /\ TextOf(s, a, b)[(r - a) * s.vw + x + 1] = s.chr[r][x]
  <1> DEFINE w == s.vw
             n == (b - a + 1) * w
             t == TextOf(s, a, b)
  <1>1. /\ w \in 1 .. MaxW /\ MaxW \in Nat /\ VH \in Nat
        /\ w \in Nat \ {0} /\ w <= MaxW
        /\ s \in Screen /\ s.chr \in [Rows -> [Cols -> Cell]]
        /\ a \in Nat /\ b \in Nat /\ b - a + 1 \in Nat /\ b - a + 1 <= VH
    <2>1. s \in Screen /\ s.chr \in [Rows -> [Cols -> Cell]]
      BY DEF Sound, Screen
    <2>2. w \in 1 .. MaxW /\ MaxW \in Nat /\ VH \in Nat
      BY <2>1, ColumnFacts, SizeFacts
    <2>3. a \in Nat /\ b \in Nat /\ b - a + 1 \in Nat /\ b - a + 1 <= VH
      BY SizeAssumption DEF Rows
    <2> QED BY <2>1, <2>2, <2>3
  <1>2. n \in Nat /\ n <= VH * MaxW
    BY <1>1, ProductsGrow
  <1>3. ASSUME NEW i \in 1 .. n
        PROVE  /\ a + (i - 1) \div w \in Rows /\ (i - 1) % w \in ScreenCols(s)
    <2>1. i - 1 \in Nat /\ i - 1 < (b - a + 1) * w
      BY <1>2
    <2>2. (i - 1) \div w \in Nat /\ (i - 1) \div w < b - a + 1
          /\ (i - 1) % w \in 0 .. w - 1
      BY <1>1, <2>1, DivFacts
    <2>3. \A q \in Nat : q < b - a + 1 => a + q \in Rows
      BY <1>1 DEF Rows
    <2> QED BY <2>2, <2>3 DEF ScreenCols
  <1>4. t = [i \in 1 .. n |-> s.chr[a + (i - 1) \div w][(i - 1) % w]]
    BY DEF TextOf
  <1>5. ASSUME NEW r \in Rows, NEW x \in ScreenCols(s) PROVE s.chr[r][x] \in Char
    <2>1. x \in Cols
      BY <1>1, ColumnFacts
    <2> QED BY <1>1, <2>1 DEF Sound, Cell
  <1>6. ASSUME NEW r \in a .. b, NEW x \in ScreenCols(s)
        PROVE  /\ (r - a) * w + x + 1 \in 1 .. n
               /\ t[(r - a) * w + x + 1] = s.chr[r][x]
    <2>1. r - a \in Nat /\ r - a <= b - a /\ x \in 0 .. w - 1
      BY <1>1 DEF ScreenCols
    <2> DEFINE q == r - a
    <2>0. q \in Nat /\ a + q = r /\ q + 1 <= b - a + 1
      BY <1>1, <2>1
    <2> HIDE DEF q
    <2>2. q * w + x \in Nat /\ (q * w + x) \div w = q /\ (q * w + x) % w = x
      <3>1. \A v \in Nat \ {0} : x \in 0 .. v - 1 =>
               /\ q * v + x \in Nat
               /\ (q * v + x) \div v = q /\ (q * v + x) % v = x
        BY <2>0, DivOfSum
      <3> QED BY <1>1, <2>1, <3>1
    <2>3. q * w + x + 1 <= n
      <3>1. (q + 1) * w <= (b - a + 1) * w
        BY <1>1, <2>0, ProductsGrow
      <3> QED BY <1>1, <2>0, <2>1, <3>1
    <2>4. t[q * w + x + 1] = s.chr[a + q][x]
      BY <1>2, <1>4, <2>2, <2>3
    <2>5. q * w + x + 1 \in 1 .. n
      BY <1>2, <2>2, <2>3
    <2> QED BY <2>0, <2>4, <2>5 DEF q
  <1> HIDE DEF n, t
  <1>7. t \in [1 .. n -> Char]
    BY <1>3, <1>4, <1>5
  <1>8. t \in Seq(Char) /\ Len(t) = n
    BY <1>2, <1>7
  <1> QED BY <1>2, <1>4, <1>6, <1>8 DEF n, t

(* Trimming keeps a text, up to its last character that is not blank.      *)
LEMMA TrimmedFacts ==
    ASSUME NEW t \in Seq(Char)
    PROVE  LET u == Trimmed(t)
           IN  /\ u \in Seq(Char) /\ Len(u) \in 0 .. Len(t)
               /\ \A i \in 1 .. Len(u) : u[i] = t[i]
               /\ \A i \in Len(u) + 1 .. Len(t) : t[i] = Blank
               /\ Len(u) > 0 => t[Len(u)] # Blank
  <1> DEFINE S == {0} \cup {i \in DOMAIN t : t[i] # Blank}
             m == Max(S)
  <1>1. Len(t) \in Nat /\ DOMAIN t = 1 .. Len(t)
    OBVIOUS
  <1>2. S \subseteq 0 .. Len(t) /\ S # {}
    BY <1>1
  <1>3. m \in S /\ \A n \in S : n <= m
    BY <1>1, <1>2, MaxFacts
  <1>4. Trimmed(t) = SubSeq(t, 1, m)
    BY DEF Trimmed
  <1>5. \A i \in m + 1 .. Len(t) : t[i] = Blank
    <2>1. SUFFICES ASSUME NEW i \in m + 1 .. Len(t), t[i] # Blank PROVE FALSE
      OBVIOUS
    <2>2. m \in 0 .. Len(t)
      BY <1>2, <1>3
    <2>3. i \in 1 .. Len(t)
      BY <1>1, <2>2
    <2>4. i \in S
      BY <1>1, <2>1, <2>3
    <2> QED BY <1>1, <1>3, <2>2, <2>4
  <1>6. m > 0 => t[m] # Blank
    BY <1>3
  <1>7. m \in 0 .. Len(t)
    BY <1>2, <1>3
  <1> HIDE DEF m
  <1>8. /\ SubSeq(t, 1, m) \in Seq(Char) /\ Len(SubSeq(t, 1, m)) = m
        /\ \A i \in 1 .. m : SubSeq(t, 1, m)[i] = t[i]
    <2>1. \A i \in 1 .. m : t[i] \in Char
      BY <1>1, <1>7
    <2> QED BY <1>7, <2>1, SubSeqProperties
  <1> QED BY <1>4, <1>5, <1>6, <1>7, <1>8

(* The text RETURN gives, and the text C-k cuts.                           *)
LEMMA LineTextType ==
    ASSUME NEW s, Sound(s)
    PROVE  LineText(s) \in Seq(Char)
  <1>1. s \in Screen
    BY DEF Sound
  <1>2. TopRow(s) \in Rows /\ EndRow(s) \in Rows /\ TopRow(s) <= EndRow(s)
    BY <1>1, TopRowFacts, EndRowFacts, SizeAssumption DEF Rows
  <1>3. TextOf(s, TopRow(s), EndRow(s)) \in Seq(Char)
    BY <1>2, TextFacts
  <1> QED BY <1>3, TrimmedFacts DEF LineText

LEMMA KilledTextType ==
    ASSUME NEW s, Sound(s), s.vx < s.vw
    PROVE  /\ KilledText(s) \in Seq(Char)
           /\ Len(KilledText(s)) <= VH * MaxW
  <1> DEFINE e == EndRow(s)
             n == (e - s.vy + 1) * s.vw
             t == TextOf(s, s.vy, e)
             u == SubSeq(t, s.vx + 1, n)
  <1>1. s \in Screen /\ s.vx \in Nat
    BY SizeAssumption DEF Sound, Screen, Cols
  <1>2. e \in Rows /\ s.vy \in Rows /\ s.vy <= e
    BY <1>1, EndRowFacts
  <1>3. t \in Seq(Char) /\ Len(t) = n /\ n \in Nat /\ n <= VH * MaxW
    BY <1>2, TextFacts
  <1>4. KilledText(s) = Trimmed(u)
    BY DEF KilledText
  <1> HIDE DEF n, t, e
  <1>5. u \in Seq(Char) /\ Len(u) <= n
    <2>1. \A i \in s.vx + 1 .. n : t[i] \in Char
      BY <1>1, <1>3
    <2>2. u \in Seq(Char) /\ Len(u) = IF s.vx + 1 <= n THEN n - (s.vx + 1) + 1 ELSE 0
      BY <1>1, <1>3, <2>1, SubSeqProperties
    <2> QED BY <1>1, <1>3, <2>2
  <1> HIDE DEF u
  <1>6. Trimmed(u) \in Seq(Char) /\ Len(Trimmed(u)) \in 0 .. Len(u)
    BY <1>5, TrimmedFacts
  <1>7. VH * MaxW \in Nat
    BY SizeFacts
  <1> QED BY <1>3, <1>4, <1>5, <1>6, <1>7

-----------------------------------------------------------------------------
(* New pictures of the rows.                                               *)

(* A picture, its marks and its flags replaced.                            *)
Pictured(s, new, D, L, K) ==
    [s EXCEPT !.chr = new, !.dirty = D, !.ldirty = L, !.cont = K]

(* What that leaves alone.                                                 *)
Pictures(s, t, new, D, L, K) ==
    /\ SameTerminal(s, t)
    /\ t.chr = new /\ t.dirty = D /\ t.ldirty = L /\ t.cont = K
    /\ t.vw = s.vw /\ t.vx = s.vx /\ t.vy = s.vy
    /\ t.vis = s.vis /\ t.xy = s.xy

LEMMA PictureFacts ==
    ASSUME NEW s \in Screen, NEW new \in [Rows -> [Cols -> Cell]],
           NEW D \in [Rows -> SUBSET Cols], NEW L \in SUBSET Rows,
           NEW K \in SUBSET Rows,
           NEW t, t = Pictured(s, new, D, L, K)
    PROVE  t \in Screen /\ Pictures(s, t, new, D, L, K)
  BY Zenon DEF Screen, SameTerminal, Pictured, Pictures

(* Cells that change are marked; the rows marked are those of L.           *)
Full(s, new) == \A r \in Rows, x \in ScreenCols(s) : new[r][x] # Nul

Repainted(s, new, L, K) == [Redrawn(s, new) EXCEPT !.ldirty = L, !.cont = K]

(* What that leaves alone, and which marks it adds.                        *)
Repaints(s, t, new, L, K) ==
    /\ SameTerminal(s, t)
    /\ t.chr = new /\ t.ldirty = L /\ t.cont = K
    /\ t.vw = s.vw /\ t.vx = s.vx /\ t.vy = s.vy
    /\ t.vis = s.vis /\ t.xy = s.xy
    /\ \A r \in Rows, x \in Cols :
          x \in t.dirty[r] <=> x \in s.dirty[r] \/ new[r][x] # s.chr[r][x]

LEMMA RepaintedFacts ==
    ASSUME NEW s, Sound(s), NEW new \in [Rows -> [Cols -> Cell]],
           Full(s, new),
           NEW L \in SUBSET Rows, NEW K \in SUBSET Rows,
           NEW t, t = Repainted(s, new, L, K)
    PROVE  Sound(t) /\ Repaints(s, t, new, L, K)
  <1> DEFINE D == [r \in Rows |-> s.dirty[r] \cup
                                    {x \in Cols : new[r][x] # s.chr[r][x]}]
             u == Pictured(s, new, D, L, K)
  <1>1. s \in Screen /\ s.dirty \in [Rows -> SUBSET Cols]
    BY Zenon DEF Sound, Screen
  <1>2. D \in [Rows -> SUBSET Cols]
    BY <1>1
  <1>3. t = u
    BY Zenon, <1>1 DEF Repainted, Redrawn, Pictured, Screen
  <1>4. \A r \in Rows, x \in Cols :
           x \in D[r] <=> x \in s.dirty[r] \/ new[r][x] # s.chr[r][x]
    BY <1>1
  <1> HIDE DEF D
  <1>5. u \in Screen /\ Pictures(s, u, new, D, L, K)
    BY <1>1, <1>2, PictureFacts
  <1> HIDE DEF u
  <1>6. Sound(u)
    <2>1. s.vx < MaxW /\ Tracked(s)
      BY DEF Sound
    <2>2. Tracked(u) /\ u.glass = s.glass
      BY <1>5, <2>1, TrackedAgain DEF Pictures
    <2>3. ScreenCols(u) = ScreenCols(s)
      BY <1>5 DEF ScreenCols, Pictures
    <2> QED BY <1>5, <2>1, <2>2, <2>3, SoundAgain DEF Full, Pictures
  <1> QED BY <1>3, <1>4, <1>5, <1>6 DEF Repaints, Pictures

(* The marks cover the terminal as long as every row with a mark is in L.  *)
LEMMA RepaintedMirror ==
    ASSUME NEW s, Sound(s), Mirror(s), NEW new \in [Rows -> [Cols -> Cell]],
           NEW L, NEW K, NEW t, Repaints(s, t, new, L, K),
           \A r \in Rows, x \in ScreenCols(s) :
              x \in s.dirty[r] \/ new[r][x] # s.chr[r][x] => r \in L
    PROVE  Mirror(t)
  <1>1. SUFFICES ASSUME NEW r \in Rows, NEW x \in ScreenCols(s)
                 PROVE  /\ t.glass[r][x] # t.chr[r][x] => x \in t.dirty[r]
                        /\ x \in t.dirty[r] => r \in t.ldirty
    BY DEF Mirror, ScreenCols, Repaints
  <1>2. x \in Cols
    BY ColumnFacts DEF Sound
  <1>3. s.glass[r][x] # s.chr[r][x] => x \in s.dirty[r]
    BY DEF Mirror
  <1> QED BY <1>2, <1>3 DEF Repaints, SameTerminal

(* The cursor and the joins stay.                                          *)
Stays(s, t) ==
    t.vx = s.vx /\ t.vy = s.vy /\ t.xy = s.xy /\ t.cont = s.cont

(* When no mark is lost: the keys that erase and cut.                      *)
LEMMA RepaintedCarries ==
    ASSUME NEW s, Sound(s), NEW new \in [Rows -> [Cols -> Cell]],
           Full(s, new),
           NEW L \in SUBSET Rows, s.ldirty \subseteq L,
           Changed(s, new) \subseteq L,
           NEW t, t = Repainted(s, new, L, s.cont)
    PROVE  Carries(s, t) /\ Stays(s, t)
  <1>1. PICK K \in SUBSET Rows : K = s.cont
    BY Zenon DEF Sound, Screen
  <1>0. t = Repainted(s, new, L, K)
    BY <1>1
  <1>2. Sound(t) /\ Repaints(s, t, new, L, K)
    BY <1>0, <1>1, RepaintedFacts
  <1>3. ASSUME Mirror(s) PROVE Mirror(t)
    <2>1. \A r \in Rows, x \in ScreenCols(s) :
             x \in s.dirty[r] \/ new[r][x] # s.chr[r][x] => r \in L
      BY <1>2, <1>3 DEF Mirror, Changed
    <2> QED BY <1>2, <1>3, <2>1, RepaintedMirror
  <1> QED BY <1>1, <1>2, <1>3 DEF Carries, Keeps, Repaints, Stays

-----------------------------------------------------------------------------
(* The keys that erase and cut.                                            *)

(* The cursor has been shown: the bytes at XYADR are its place, and the    *)
(* cursor of the terminal is there too.                                    *)
Shown(s) == Sound(s) /\ Fresh(s) /\ Ended(s, TRUE)

LEMMA FreshMirror ==
    ASSUME NEW s, Fresh(s)
    PROVE  Mirror(s)
  BY DEF Fresh, Mirror

LEMMA SoundFacts ==
    ASSUME NEW s, Sound(s)
    PROVE  /\ s \in Screen /\ s.chr \in [Rows -> [Cols -> Cell]]
           /\ s.ldirty \in SUBSET Rows /\ s.cont \in SUBSET Rows
           /\ Full(s, s.chr)
           /\ s.vx \in Cols /\ s.vx \in Nat /\ s.vx < MaxW
           /\ s.vy \in Rows /\ s.vy \in Nat /\ s.vy < VH
           /\ s.vw \in Nat /\ s.vw >= 1 /\ s.vw <= MaxW
           /\ EndRow(s) \in Rows /\ s.vy <= EndRow(s)
  <1>1. s \in Screen
    BY DEF Sound
  <1>2. /\ s.chr \in [Rows -> [Cols -> Cell]]
        /\ s.ldirty \in SUBSET Rows /\ s.cont \in SUBSET Rows
        /\ s.vx \in Cols /\ s.vy \in Rows
    BY Zenon, <1>1 DEF Screen
  <1>3. s.vx \in Nat /\ s.vy \in Nat /\ s.vy < VH
    BY <1>2, SizeFacts DEF Cols, Rows
  <1>4. s.vw \in 1 .. MaxW
    BY <1>1, ColumnFacts
  <1>5. s.vw \in Nat /\ s.vw >= 1 /\ s.vw <= MaxW
    BY <1>4, SizeFacts
  <1>6. EndRow(s) \in Rows /\ s.vy <= EndRow(s)
    BY <1>1, EndRowFacts
  <1> QED BY <1>1, <1>2, <1>3, <1>5, <1>6 DEF Sound, Full

LEMMA RowIs ==
    /\ \A r \in Rows : r \in Nat /\ r >= 0 /\ r < VH /\ r <= VH - 1
    /\ \A r \in Nat : r < VH => r \in Rows
    /\ VH \in Nat
  BY SizeAssumption DEF Rows

LEMMA RowsBetween ==
    ASSUME NEW y \in Rows, NEW e \in Rows
    PROVE  y .. e \in SUBSET Rows
  BY SizeAssumption DEF Rows

(* Marked rows, the joins as they are.                                     *)
LEMMA AsRepainted ==
    ASSUME NEW s \in Screen, NEW new, NEW X
    PROVE  [Redrawn(s, new) EXCEPT !.ldirty = @ \cup X] =
           Repainted(s, new, s.ldirty \cup X, s.cont)
  BY Zenon DEF Redrawn, Repainted, Screen

(* The cells a key draws are those of the group from the cursor on.        *)
LEMMA ErasedFacts ==
    ASSUME NEW s, Sound(s), NEW new \in [Rows -> [Cols -> Cell]],
           Full(s, new),
           \A r \in Rows, x \in Cols : ~Behind(s, r, x) => new[r][x] = s.chr[r][x],
           NEW t, t = [Redrawn(s, new) EXCEPT !.ldirty = @ \cup s.vy .. EndRow(s)]
    PROVE  /\ Carries(s, Flush(t))
           /\ Mirror(s) => Fresh(Flush(t))
           /\ Flush(t).vx = s.vx /\ Flush(t).vy = s.vy /\ Flush(t).xy = s.xy
           /\ Flush(t).gx = s.vx /\ Flush(t).gy = s.vy
           /\ Flush(t).chr = new /\ Flush(t).cont = s.cont
  <1> DEFINE L == s.ldirty \cup s.vy .. EndRow(s)
  <1>1. /\ s \in Screen /\ s.chr \in [Rows -> [Cols -> Cell]]
        /\ s.ldirty \in SUBSET Rows
        /\ s.vy \in Rows /\ EndRow(s) \in Rows /\ s.vy <= EndRow(s)
    BY SoundFacts
  <1>2. L \in SUBSET Rows /\ s.ldirty \subseteq L
    BY <1>1, RowsBetween
  <1>3. Changed(s, new) \subseteq L
    <2>1. SUFFICES ASSUME NEW r \in Rows, new[r] # s.chr[r], r \notin s.vy .. EndRow(s)
                   PROVE  FALSE
      BY DEF Changed
    <2>2. \A x \in Cols : ~Behind(s, r, x)
      BY <1>1, <2>1, SizeAssumption DEF Behind, Rows
    <2>3. \A x \in Cols : new[r][x] = s.chr[r][x]
      BY <2>2
    <2>4. new[r] \in [Cols -> Cell] /\ s.chr[r] \in [Cols -> Cell]
      BY <1>1
    <2> QED BY <2>1, <2>3, <2>4
  <1>4. t = Repainted(s, new, L, s.cont)
    BY <1>1, AsRepainted
  <1> HIDE DEF L
  <1>5. Carries(s, t) /\ Stays(s, t)
    BY <1>2, <1>3, <1>4, RepaintedCarries
  <1>9. t.chr = new
    <2>1. PICK K \in SUBSET Rows : K = s.cont
      BY SoundFacts
    <2>2. Repaints(s, t, new, L, K)
      BY <1>2, <1>4, <2>1, RepaintedFacts
    <2> QED BY <2>2 DEF Repaints
  <1>6. Sound(t) /\ (Mirror(s) => Mirror(t))
    BY <1>5 DEF Carries
  <1>7. /\ Carries(t, Flush(t))
        /\ Mirror(t) => Fresh(Flush(t))
        /\ Flush(t).vx = t.vx /\ Flush(t).vy = t.vy /\ Flush(t).xy = t.xy
        /\ Flush(t).gx = t.vx /\ Flush(t).gy = t.vy
        /\ Flush(t).chr = t.chr /\ Flush(t).cont = t.cont
    BY <1>6, FlushFacts
  <1>8. Carries(s, Flush(t))
    BY <1>5, <1>7, CarriesTransitive
  <1> QED BY <1>5, <1>6, <1>7, <1>8, <1>9 DEF Stays

LEMMA DeleteFacts ==
    ASSUME NEW s, Sound(s)
    PROVE  /\ Carries(s, Delete(s))
           /\ Mirror(s) => Fresh(Delete(s))
           /\ Delete(s).vx = s.vx /\ Delete(s).vy = s.vy /\ Delete(s).xy = s.xy
           /\ Delete(s).gx = s.vx /\ Delete(s).gy = s.vy
  <1> DEFINE new == PulledLeft(s)
             t == [Redrawn(s, new) EXCEPT !.ldirty = @ \cup s.vy .. EndRow(s)]
  <1>1. /\ s \in Screen /\ s.chr \in [Rows -> [Cols -> Cell]] /\ Full(s, s.chr)
        /\ EndRow(s) \in Rows
    BY SoundFacts
  <1>2. s.vw \in 1 .. MaxW /\ 0 \in ScreenCols(s)
        /\ \A x \in ScreenCols(s) : x \in Cols
    BY <1>1, ColumnFacts
  <1>3. ASSUME NEW r \in Rows, NEW x \in Cols
        PROVE  /\ new[r][x] \in Cell
               /\ x \in ScreenCols(s) => new[r][x] # Nul
               /\ ~Behind(s, r, x) => new[r][x] = s.chr[r][x]
    <2>1. new[r][x] = IF ~Behind(s, r, x) THEN s.chr[r][x]
                      ELSE IF x + 1 < s.vw THEN s.chr[r][x + 1]
                      ELSE IF r < EndRow(s) THEN s.chr[r + 1][0]
                      ELSE Blank
      BY DEF PulledLeft
    <2>2. x + 1 < s.vw => x + 1 \in ScreenCols(s)
      BY <1>2, SizeFacts DEF ScreenCols, Cols
    <2>3. r < EndRow(s) => r + 1 \in Rows
      BY <1>1, SizeFacts DEF Rows
    <2>4. \A q \in Rows, y \in ScreenCols(s) :
             s.chr[q][y] \in Cell /\ s.chr[q][y] # Nul
      BY <1>1, <1>2 DEF Full
    <2>5. Blank \in Cell /\ Blank # Nul /\ s.chr[r][x] \in Cell
      BY <1>1, CharAssumption DEF Cell
    <2> HIDE DEF new
    <2> QED BY <1>2, <2>1, <2>2, <2>3, <2>4, <2>5
  <1>4. new \in [Rows -> [Cols -> Cell]]
    <2>1. new = [r \in Rows |-> [x \in Cols |-> new[r][x]]]
      BY DEF PulledLeft
    <2> HIDE DEF new
    <2> QED BY <1>3, <2>1
  <1>5. Full(s, new)
    BY <1>2, <1>3 DEF Full
  <1>6. Delete(s) = Flush(t)
    BY DEF Delete
  <1> HIDE DEF new
  <1> QED BY <1>3, <1>4, <1>5, <1>6, ErasedFacts

(* The cells from the cursor on are blank, the others as they were.        *)
Blanked(s, t) ==
    \A r \in Rows, x \in Cols :
       t.chr[r][x] = IF Behind(s, r, x) THEN Blank ELSE s.chr[r][x]

LEMMA KillFacts ==
    ASSUME NEW s, Sound(s)
    PROVE  /\ Carries(s, Kill(s))
           /\ Mirror(s) => Fresh(Kill(s))
           /\ Kill(s).vx = s.vx /\ Kill(s).vy = s.vy /\ Kill(s).xy = s.xy
           /\ Kill(s).gx = s.vx /\ Kill(s).gy = s.vy
           /\ Blanked(s, Kill(s)) /\ Kill(s).cont = s.cont
  <1> DEFINE new == [r \in Rows |-> [x \in Cols |->
                        IF Behind(s, r, x) THEN Blank ELSE s.chr[r][x]]]
             t == [Redrawn(s, new) EXCEPT !.ldirty = @ \cup s.vy .. EndRow(s)]
  <1>1. s.chr \in [Rows -> [Cols -> Cell]] /\ Full(s, s.chr)
    BY SoundFacts
  <1>2. Blank \in Cell /\ Blank # Nul
    BY CharAssumption DEF Cell
  <1>3. /\ new \in [Rows -> [Cols -> Cell]]
        /\ \A r \in Rows, x \in Cols : ~Behind(s, r, x) => new[r][x] = s.chr[r][x]
    BY <1>1, <1>2
  <1>4. Full(s, new)
    <2>1. \A x \in ScreenCols(s) : x \in Cols
      BY SoundFacts, ColumnFacts
    <2> QED BY <1>1, <1>2, <2>1 DEF Full
  <1>5. Kill(s) = Flush(t)
    BY DEF Kill
  <1>6. ASSUME NEW k, k.chr = new PROVE Blanked(s, k)
    BY <1>6 DEF Blanked
  <1> HIDE DEF new
  <1>7. /\ Carries(s, Flush(t))
        /\ Mirror(s) => Fresh(Flush(t))
        /\ Flush(t).vx = s.vx /\ Flush(t).vy = s.vy /\ Flush(t).xy = s.xy
        /\ Flush(t).gx = s.vx /\ Flush(t).gy = s.vy
        /\ Flush(t).chr = new /\ Flush(t).cont = s.cont
    BY <1>3, <1>4, ErasedFacts
  <1> QED BY <1>5, <1>6, <1>7

(* More rows joined.                                                       *)
Joining(s, K) == [s EXCEPT !.cont = @ \cup K]

LEMMA JoinedFacts ==
    ASSUME NEW s, Sound(s), NEW K \in SUBSET Rows, NEW t, t = Joining(s, K)
    PROVE  /\ Sound(t) /\ (Mirror(s) => Mirror(t)) /\ (Fresh(s) => Fresh(t))
           /\ VH - 1 \notin K => Carries(s, t)
           /\ t.vw = s.vw /\ t.vis = s.vis /\ t.chr = s.chr /\ t.dirty = s.dirty
           /\ t.vx = s.vx /\ t.vy = s.vy /\ t.xy = s.xy /\ t.cont = s.cont \cup K
  <1>1. s \in Screen /\ s.cont \in SUBSET Rows /\ s.vx < MaxW
    BY SoundFacts
  <1>2. /\ SameTerminal(s, t) /\ t.vw = s.vw /\ t.vis = s.vis /\ t.chr = s.chr
        /\ t.dirty = s.dirty /\ t.ldirty = s.ldirty /\ t.cont = s.cont \cup K
        /\ t.vx = s.vx /\ t.vy = s.vy /\ t.xy = s.xy
    BY Zenon, <1>1 DEF Screen, SameTerminal, Joining
  <1>3. t \in Screen
    <2>1. s.cont \cup K \in SUBSET Rows
      BY <1>1
    <2>2. t = [s EXCEPT !.cont = s.cont \cup K]
      BY DEF Joining
    <2> QED BY Zenon, <1>1, <2>1, <2>2 DEF Screen
  <1>4. Sound(t) /\ (Mirror(s) => Mirror(t)) /\ (Fresh(s) => Fresh(t))
    BY <1>1, <1>2, <1>3, SoundMoved, SameDisplay DEF SameTerminal
  <1>5. ASSUME VH - 1 \notin K PROVE Carries(s, t)
    BY <1>2, <1>4, <1>5 DEF Carries, Keeps
  <1> QED BY <1>2, <1>4, <1>5

LEMMA BackspaceFacts ==
    ASSUME NEW s, Sound(s)
    PROVE  /\ Carries(s, Backspace(s))
           /\ Mirror(s) => Fresh(Backspace(s))
           /\ Ended(Backspace(s), TRUE)
  <1> DEFINE t == VLeft(s, FALSE)
             u == IF t.vy # s.vy THEN [t EXCEPT !.cont = @ \cup {t.vy}] ELSE t
  <1>1. /\ Carries(s, t) /\ Sound(t) /\ (Mirror(s) => Mirror(t))
        /\ t.xy = <<t.vx, t.vy>>
        /\ t.vy = s.vy \/ (t.vy = s.vy - 1 /\ s.vy > 0)
    BY VLeftFacts DEF Carries, Ended
  <1> HIDE DEF t
  <1>2. /\ Carries(t, u) /\ u.vx = t.vx /\ u.vy = t.vy /\ u.xy = t.xy
    <2>1. CASE t.vy = s.vy
      BY <1>1, <2>1 DEF Carries, Keeps
    <2>2. CASE t.vy # s.vy
      <3>1. {t.vy} \in SUBSET Rows /\ VH - 1 \notin {t.vy}
        BY <1>1, <2>2, SoundFacts, SizeFacts DEF Rows
      <3>2. u = Joining(t, {t.vy})
        BY <2>2 DEF Joining
      <3> HIDE DEF u
      <3> QED BY <1>1, <3>1, <3>2, JoinedFacts
    <2> QED BY <2>1, <2>2
  <1>3. Sound(u) /\ (Mirror(s) => Mirror(u)) /\ Carries(s, u)
    BY <1>1, <1>2, CarriesTransitive DEF Carries
  <1>4. Backspace(s) = Delete(u)
    BY DEF Backspace, t
  <1> HIDE DEF u
  <1>5. /\ Carries(u, Delete(u)) /\ (Mirror(u) => Fresh(Delete(u)))
        /\ Delete(u).vx = u.vx /\ Delete(u).vy = u.vy /\ Delete(u).xy = u.xy
        /\ Delete(u).gx = u.vx /\ Delete(u).gy = u.vy
    BY <1>3, DeleteFacts
  <1>6. Carries(s, Delete(u))
    BY <1>3, <1>5, CarriesTransitive
  <1> QED BY <1>1, <1>2, <1>3, <1>4, <1>5, <1>6 DEF Ended

-----------------------------------------------------------------------------
(* The keys that move the cursor.                                          *)

LEMMA MovedFacts ==
    ASSUME NEW s, Sound(s), NEW y \in Rows, NEW x \in ScreenCols(s)
    PROVE  /\ Carries(s, MovedTo(s, y, x))
           /\ Fresh(s) => Fresh(MovedTo(s, y, x))
           /\ Ended(MovedTo(s, y, x), TRUE)
  <1> DEFINE t == Placed(s, y, x)
  <1>1. s \in Screen /\ s.vw <= MaxW /\ s.vw \in Nat
    BY SoundFacts
  <1>2. x \in Cols /\ x < MaxW /\ x < s.vw
    BY <1>1, ColumnFacts, SizeFacts DEF ScreenCols
  <1>3. /\ t \in Screen /\ SameTerminal(s, t) /\ t.vx = x /\ t.vy = y
        /\ t.vw = s.vw /\ t.vis = s.vis /\ t.chr = s.chr
        /\ t.dirty = s.dirty /\ t.ldirty = s.ldirty /\ t.cont = s.cont
    BY <1>1, <1>2, PlacedFacts
  <1>4. MovedTo(s, y, x) = XySync(Show(t, TRUE))
    BY DEF MovedTo, Placed
  <1> HIDE DEF t
  <1>5. Carries(s, t) /\ (Fresh(s) => Fresh(t))
    BY <1>2, <1>3, CursorCarries
  <1> QED BY <1>4, <1>5, EndFacts

LEMMA ToTopFacts ==
    ASSUME NEW s, Sound(s)
    PROVE  /\ Carries(s, ToTop(s))
           /\ Fresh(s) => Fresh(ToTop(s))
           /\ Ended(ToTop(s), TRUE)
  <1>1. s \in Screen
    BY SoundFacts
  <1>2. TopRow(s) \in Rows /\ 0 \in ScreenCols(s)
    BY <1>1, TopRowFacts, ColumnFacts
  <1> QED BY <1>2, MovedFacts DEF ToTop

LEMMA ToEndFacts ==
    ASSUME NEW s, Sound(s)
    PROVE  /\ Carries(s, ToEnd(s))
           /\ Fresh(s) => Fresh(ToEnd(s))
           /\ Ended(ToEnd(s), TRUE)
  <1> DEFINE a == TopRow(s)
             b == EndRow(s)
             w == s.vw
             n == Len(Trimmed(TextOf(s, a, b)))
             cells == (b - a + 1) * w
             p == IF 0 < n /\ n < cells THEN n ELSE cells - 1
  <1>1. /\ s \in Screen /\ w \in Nat \ {0}
        /\ a \in Rows /\ b \in Rows /\ a <= b /\ a \in Nat /\ b \in Nat
        /\ b < VH /\ VH \in Nat /\ b - a + 1 \in Nat /\ 1 <= b - a + 1
    <2>1. /\ s \in Screen /\ w \in Nat \ {0} /\ s.vy \in Nat
          /\ a \in Rows /\ b \in Rows /\ a <= s.vy /\ s.vy <= b
      BY SoundFacts, TopRowFacts
    <2> HIDE DEF a, b, w
    <2>2. VH \in Nat /\ a \in 0 .. VH - 1 /\ b \in 0 .. VH - 1
      BY <2>1, SizeFacts DEF Rows
    <2> QED BY <2>1, <2>2
  <1> HIDE DEF a, b, w
  <1>2. cells \in Nat /\ 1 * 1 <= cells
    BY <1>1, ProductsGrow
  <1>3. TextOf(s, a, b) \in Seq(Char) /\ Len(TextOf(s, a, b)) = cells
    BY <1>1, TextFacts DEF w
  <1>4. n \in Nat
    BY <1>2, <1>3, TrimmedFacts
  <1> HIDE DEF n, cells
  <1>5. p \in Nat /\ p < cells
    BY <1>2, <1>4
  <1> HIDE DEF p
  <1>6. /\ p \div w \in Nat /\ p % w \in 0 .. w - 1
        /\ p \div w < b - a + 1
    BY <1>1, <1>5, DivFacts DEF cells
  <1>7. a + p \div w \in Rows /\ p % w \in ScreenCols(s)
    BY <1>1, <1>6 DEF Rows, ScreenCols, w
  <1>8. ToEnd(s) = MovedTo(s, a + p \div w, p % w)
    BY DEF ToEnd, a, b, w, n, cells, p
  <1> QED BY <1>7, <1>8, MovedFacts

-----------------------------------------------------------------------------
(* Inserting.                                                              *)

(* Everything that is below the group of the cursor has been drawn.        *)
CleanBelow(s) ==
    \A r \in Rows, x \in ScreenCols(s) : r > EndRow(s) => x \notin s.dirty[r]

(* The last row of the group is blank from column n on.                    *)
BlankFrom(s, n) == \A x \in ScreenCols(s) : x >= n => s.chr[EndRow(s)][x] = Blank

(* The cursor is on the last cell of its group.                            *)
AtEnd(s) == s.vx = s.vw - 1 /\ s.vy = EndRow(s)

(* The cells pushed to the right by one.                                   *)
Pushed(s) ==
    [Redrawn(s, PushedRight(s)) EXCEPT !.ldirty = @ \cup Changed(s, PushedRight(s))]

LEMMA PushedFacts ==
    ASSUME NEW s, Sound(s)
    PROVE  /\ Carries(s, Pushed(s)) /\ Stays(s, Pushed(s))
           /\ Pushed(s).chr = PushedRight(s)
           /\ CleanBelow(s) => CleanBelow(Pushed(s))
           /\ \A n \in Nat : BlankFrom(s, n) => BlankFrom(Pushed(s), n + 1)
  <1> DEFINE new == PushedRight(s)
             e == EndRow(s)
             L == s.ldirty \cup Changed(s, new)
             t == Pushed(s)
  <1>1. /\ s \in Screen /\ s.chr \in [Rows -> [Cols -> Cell]] /\ Full(s, s.chr)
        /\ s.ldirty \in SUBSET Rows /\ s.cont \in SUBSET Rows
        /\ e \in Rows /\ s.vy \in Rows /\ s.vy <= e
    BY SoundFacts
  <1>2. /\ s.vw \in 1 .. MaxW /\ MaxW \in Nat /\ 0 \in ScreenCols(s)
        /\ s.vw - 1 \in ScreenCols(s)
        /\ \A x \in ScreenCols(s) : x \in Cols
    BY <1>1, ColumnFacts, SizeFacts
  <1>3. ASSUME NEW r \in Rows, NEW x \in Cols
        PROVE  /\ new[r][x] \in Cell
               /\ x \in ScreenCols(s) => new[r][x] # Nul
               /\ ~Behind(s, r, x) => new[r][x] = s.chr[r][x]
               /\ Behind(s, r, x) /\ x > 0 =>
                     new[r][x] = Blank \/ new[r][x] = s.chr[r][x - 1]
    <2>1. new[r][x] = IF ~Behind(s, r, x) THEN s.chr[r][x]
                      ELSE IF r = s.vy /\ x = s.vx THEN Blank
                      ELSE IF x > 0 THEN s.chr[r][x - 1]
                      ELSE s.chr[r - 1][s.vw - 1]
      BY DEF PushedRight
    <2>2. Behind(s, r, x) /\ x > 0 => x - 1 \in ScreenCols(s)
      BY <1>2 DEF Behind, Cols, ScreenCols
    <2>3. Behind(s, r, x) /\ ~(x > 0) => (r = s.vy /\ x = s.vx) \/ r - 1 \in Rows
      <3>1. SUFFICES ASSUME Behind(s, r, x), ~(x > 0), ~(r = s.vy /\ x = s.vx)
                     PROVE  r - 1 \in Rows
        OBVIOUS
      <3>2. x = 0 /\ s.vx \in Nat
        BY <1>2, <3>1, SoundFacts DEF Cols
      <3>3. r > s.vy
        BY <3>1, <3>2 DEF Behind
      <3>4. r \in Nat /\ r < VH /\ s.vy \in Nat /\ VH \in Nat
        BY <1>1, RowIs
      <3>5. r - 1 \in Nat /\ r - 1 < VH
        BY <3>3, <3>4
      <3> QED BY <3>5, RowIs
    <2>4. \A q \in Rows, y \in ScreenCols(s) :
             s.chr[q][y] \in Cell /\ s.chr[q][y] # Nul
      BY <1>1, <1>2 DEF Full
    <2>5. Blank \in Cell /\ Blank # Nul /\ s.chr[r][x] \in Cell
      BY <1>1, CharAssumption DEF Cell
    <2> HIDE DEF new
    <2> QED BY <1>2, <2>1, <2>2, <2>3, <2>4, <2>5
  <1>4. new \in [Rows -> [Cols -> Cell]] /\ Full(s, new)
    <2>1. new = [r \in Rows |-> [x \in Cols |-> new[r][x]]]
      BY DEF PushedRight
    <2> HIDE DEF new
    <2>2. Full(s, new)
      BY <1>2, <1>3 DEF Full
    <2> QED BY <1>3, <2>1, <2>2
  <1>5. L \in SUBSET Rows /\ s.ldirty \subseteq L /\ Changed(s, new) \subseteq L
    BY <1>1 DEF Changed
  <1>6. t = Repainted(s, new, L, s.cont)
    BY <1>1, AsRepainted DEF Pushed
  <1>13. new = PushedRight(s)
    OBVIOUS
  <1> HIDE DEF L, t, new
  <1>7. Carries(s, t) /\ Stays(s, t)
    BY <1>4, <1>5, <1>6, RepaintedCarries
  <1>8. PICK K \in SUBSET Rows : K = s.cont
    BY <1>1
  <1>9. Repaints(s, t, new, L, K)
    BY <1>4, <1>5, <1>6, <1>8, RepaintedFacts
  <1>10. EndRow(t) = e /\ ScreenCols(t) = ScreenCols(s) /\ t.chr = new
    BY <1>7, <1>9 DEF EndRow, Stays, Repaints, ScreenCols
  <1>11. ASSUME CleanBelow(s) PROVE CleanBelow(t)
    <2>1. SUFFICES ASSUME NEW r \in Rows, NEW x \in ScreenCols(s), r > e
                   PROVE  x \notin t.dirty[r]
      BY <1>10 DEF CleanBelow
    <2>2. ~Behind(s, r, x) /\ x \in Cols
      BY <1>1, <1>2, <2>1, SizeFacts DEF Behind, Rows
    <2>3. new[r][x] = s.chr[r][x] /\ x \notin s.dirty[r]
      BY <1>3, <1>11, <2>1, <2>2 DEF CleanBelow
    <2> QED BY <1>9, <2>2, <2>3 DEF Repaints
  <1>12. ASSUME NEW n \in Nat, BlankFrom(s, n) PROVE BlankFrom(t, n + 1)
    <2>1. SUFFICES ASSUME NEW x \in ScreenCols(s), x >= n + 1
                   PROVE  new[e][x] = Blank
      BY <1>10 DEF BlankFrom
    <2>2. x - 1 \in ScreenCols(s) /\ x - 1 >= n /\ x >= n /\ x > 0 /\ x \in Cols
      BY <1>2, <2>1 DEF ScreenCols
    <2>3. s.chr[e][x] = Blank /\ s.chr[e][x - 1] = Blank
      BY <1>12, <2>2 DEF BlankFrom
    <2> QED BY <1>1, <1>3, <2>2, <2>3
  <1> QED BY <1>7, <1>10, <1>11, <1>12, <1>13 DEF t

(* A row inserted: the rows from it on move down.                          *)
LEMMA InsLineFacts ==
    ASSUME NEW s, Sound(s), NEW iy \in Rows, iy > 0, NEW t, t = VInsLine(s, iy)
    PROVE  /\ Sound(t)
           /\ t.vw = s.vw /\ t.vis = s.vis /\ t.vx = s.vx /\ t.vy = s.vy
           /\ t.cont = {r \in Rows : (r < iy /\ r \in s.cont) \/
                                     (r > iy /\ r - 1 \in s.cont)}
           /\ \A x \in ScreenCols(s) : t.chr[iy][x] = Blank
           /\ \A r \in Rows : r < iy => t.chr[r] = s.chr[r]
           /\ Mirror(s) /\ (\A r \in Rows, x \in ScreenCols(s) :
                               r >= iy => x \notin s.dirty[r]) => Mirror(t)
  <1> DEFINE new == [r \in Rows |-> IF r < iy THEN s.chr[r] ELSE
                      [x \in Cols |-> IF x >= s.vw THEN s.chr[r][x]
                                      ELSE IF r = iy THEN Blank ELSE s.chr[r - 1][x]]]
             moved(S) == {r \in Rows : (r < iy /\ r \in S) \/ (r > iy /\ r - 1 \in S)}
             K == moved(s.cont)
             L == moved(s.ldirty) \cup (Changed(s, new) \cap iy .. VH) \cup {iy}
  <1>1. /\ s \in Screen /\ s.chr \in [Rows -> [Cols -> Cell]] /\ Full(s, s.chr)
        /\ s.ldirty \in SUBSET Rows
        /\ \A x \in ScreenCols(s) : x \in Cols
        /\ \A x \in Cols : x < s.vw <=> x \in ScreenCols(s)
    <2>1. s.vw \in 1 .. MaxW /\ s \in Screen /\ MaxW \in Nat
          /\ \A x \in ScreenCols(s) : x \in Cols
      BY SoundFacts, ColumnFacts, SizeFacts
    <2>2. \A x \in Cols : x < s.vw <=> x \in ScreenCols(s)
      BY <2>1 DEF Cols, ScreenCols
    <2> QED BY <2>1, <2>2, SoundFacts
  <1>2. Blank \in Cell /\ Blank # Nul
    BY CharAssumption DEF Cell
  <1>3. ASSUME NEW r \in Rows, r > iy PROVE r - 1 \in Rows
    BY <1>3, SizeFacts DEF Rows
  <1>4. \A r \in Rows : /\ r < iy => new[r] = s.chr[r]
                        /\ r < iy \/ r = iy \/ r > iy
    BY SizeFacts DEF Rows
  <1>5. ASSUME NEW r \in Rows, NEW x \in Cols
        PROVE  /\ new[r][x] \in Cell
               /\ x \in ScreenCols(s) => new[r][x] # Nul
               /\ r = iy /\ x \in ScreenCols(s) => new[r][x] = Blank
    <2>1. CASE r < iy
      <3>1. new[r] = s.chr[r]
        BY <1>4, <2>1
      <3>2. r # iy
        BY <2>1, SizeFacts DEF Rows
      <3> HIDE DEF new
      <3> QED BY <1>1, <3>1, <3>2 DEF Full
    <2>2. CASE ~(r < iy)
      <3>1. new[r][x] = IF x >= s.vw THEN s.chr[r][x]
                        ELSE IF r = iy THEN Blank ELSE s.chr[r - 1][x]
        BY <2>2
      <3>2. x >= s.vw <=> x \notin ScreenCols(s)
        <4>1. x < s.vw <=> x \in ScreenCols(s)
          BY <1>1
        <4>2. s.vw \in Int
          BY SoundFacts
        <4>3. x \in Int
          BY DEF Cols
        <4> QED BY <4>1, <4>2, <4>3
      <3> HIDE DEF new
      <3> QED BY <1>1, <1>2, <1>3, <1>4, <2>2, <3>1, <3>2 DEF Full
    <2> QED BY <2>1, <2>2
  <1>6. new \in [Rows -> [Cols -> Cell]]
    <2>1. ASSUME NEW r \in Rows PROVE new[r] \in [Cols -> Cell]
      <3>1. CASE r < iy
        BY <1>1, <1>4, <3>1
      <3>2. CASE ~(r < iy)
        <4>1. new[r] = [x \in Cols |-> new[r][x]]
          BY <3>2
        <4> HIDE DEF new
        <4> QED BY <1>5, <4>1
      <3> QED BY <3>1, <3>2
    <2>2. new = [r \in Rows |-> new[r]]
      OBVIOUS
    <2> HIDE DEF new
    <2> QED BY <2>1, <2>2
  <1>7. Full(s, new)
    BY <1>1, <1>5 DEF Full
  <1>8. t = Repainted(s, new, L, K)
    <2>1. t = [Redrawn(s, new) EXCEPT !.cont = K, !.ldirty = L]
      BY DEF VInsLine
    <2> HIDE DEF new, K, L
    <2> QED BY Zenon, <1>1, <2>1 DEF Redrawn, Repainted, Screen
  <1>9. K \in SUBSET Rows /\ L \in SUBSET Rows
    BY DEF Changed
  <1>10. /\ \A r \in Rows : r < iy /\ r \in s.ldirty => r \in L
         /\ \A r \in Rows : r >= iy /\ new[r] # s.chr[r] => r \in L
    BY SizeFacts DEF Changed, Rows
  <1>15. \A r \in Rows : r < iy => new[r] = s.chr[r]
    BY <1>4
  <1>14. \A x \in ScreenCols(s) : new[iy][x] = Blank
    BY <1>1, <1>5
  <1> HIDE DEF new, L
  <1>11. K = {r \in Rows : (r < iy /\ r \in s.cont) \/ (r > iy /\ r - 1 \in s.cont)}
    OBVIOUS
  <1> HIDE DEF K
  <1>12. Sound(t) /\ Repaints(s, t, new, L, K)
    BY <1>6, <1>7, <1>8, <1>9, RepaintedFacts
  <1>13. ASSUME Mirror(s), \A r \in Rows, x \in ScreenCols(s) :
                               r >= iy => x \notin s.dirty[r]
         PROVE  Mirror(t)
    <2>1. ASSUME NEW r \in Rows, NEW x \in ScreenCols(s),
                 x \in s.dirty[r] \/ new[r][x] # s.chr[r][x]
          PROVE  r \in L
      <3>1. CASE r < iy
        <4>1. r \in s.ldirty
          BY <1>4, <1>13, <2>1, <3>1 DEF Mirror
        <4> QED BY <1>10, <3>1, <4>1
      <3>2. CASE r >= iy
        BY <1>10, <1>13, <2>1, <3>2
      <3> QED BY <3>1, <3>2, SizeFacts DEF Rows
    <2> QED BY <1>6, <1>12, <1>13, <2>1, RepaintedMirror
  <1> QED BY <1>11, <1>12, <1>13, <1>14, <1>15 DEF Repaints

(* A character carried over to the row below.                              *)
LEMMA CarriedFacts ==
    ASSUME NEW s, Sound(s), NEW r \in Rows, NEW c \in Char,
           NEW t, t = Carried(s, r, c)
    PROVE  /\ Sound(t) /\ (Mirror(s) => Mirror(t))
           /\ t.vw = s.vw /\ t.vis = s.vis /\ t.vx = s.vx /\ t.vy = s.vy
           /\ t.cont = s.cont
           /\ \A x \in ScreenCols(s) : x >= 1 => t.chr[r][x] = s.chr[r][x]
  <1> DEFINE new == [s.chr EXCEPT ![r][0] = c]
             D == [s.dirty EXCEPT ![r] = @ \cup {0}]
             L == s.ldirty \cup {r}
  <1>1. /\ s \in Screen /\ s.chr \in [Rows -> [Cols -> Cell]] /\ Full(s, s.chr)
        /\ s.ldirty \in SUBSET Rows /\ s.cont \in SUBSET Rows /\ s.vx < MaxW
        /\ s.dirty \in [Rows -> SUBSET Cols]
        /\ 0 \in Cols /\ \A x \in ScreenCols(s) : x \in Cols
    <2>1. s \in Screen
      BY SoundFacts
    <2>2. s.dirty \in [Rows -> SUBSET Cols]
      BY Zenon, <2>1 DEF Screen
    <2> QED BY <2>1, <2>2, SoundFacts, ColumnFacts, SizeFacts
  <1>2. CASE c = Blank
    BY <1>2 DEF Carried
  <1>3. CASE c # Blank
    <2>1. c \in Cell /\ c # Nul
      BY CharAssumption DEF Cell
    <2>2. new \in [Rows -> [Cols -> Cell]] /\ Full(s, new)
          /\ \A q \in Rows, x \in Cols :
                /\ ~(q = r /\ x = 0) => new[q][x] = s.chr[q][x]
                /\ x \in D[q] <=> x \in s.dirty[q] \/ (q = r /\ x = 0)
      BY <1>1, <2>1 DEF Full
    <2>3. D \in [Rows -> SUBSET Cols] /\ L \in SUBSET Rows
      BY <1>1
    <2>10. PICK K \in SUBSET Rows : K = s.cont
      BY <1>1
    <2>4. t = Pictured(s, new, D, L, K)
      BY Zenon, <1>1, <1>3, <2>10 DEF Carried, Pictured, Screen
    <2>5. L = s.ldirty \cup {r}
      OBVIOUS
    <2> HIDE DEF new, D, L
    <2>6. t \in Screen /\ Pictures(s, t, new, D, L, K)
      <3>1. /\ s \in Screen /\ new \in [Rows -> [Cols -> Cell]]
            /\ D \in [Rows -> SUBSET Cols] /\ L \in SUBSET Rows
            /\ K \in SUBSET Rows
        BY <1>1, <2>2, <2>3, <2>10
      <3> QED BY <3>1, <2>4, PictureFacts
    <2>7. Sound(t)
      <3>1. Tracked(t) /\ t.glass = s.glass
        BY <2>6, TrackedAgain DEF Sound, Pictures
      <3>2. ScreenCols(t) = ScreenCols(s)
        BY <2>6 DEF ScreenCols, Pictures
      <3> QED BY <1>1, <2>2, <2>6, <3>1, <3>2, SoundAgain DEF Full, Pictures
    <2>8. ASSUME Mirror(s) PROVE Mirror(t)
      <3>1. SUFFICES ASSUME NEW q \in Rows, NEW x \in ScreenCols(s)
                     PROVE  /\ t.glass[q][x] # new[q][x] => x \in D[q]
                            /\ x \in D[q] => q \in L
        BY <2>6 DEF Mirror, ScreenCols, Pictures
      <3>2. /\ s.glass[q][x] # s.chr[q][x] => x \in s.dirty[q]
            /\ x \in s.dirty[q] => q \in s.ldirty
        BY <2>8 DEF Mirror
      <3>3. t.glass = s.glass /\ x \in Cols
        BY <1>1, <2>6 DEF SameTerminal, Pictures
      <3> QED BY <2>2, <2>5, <3>2, <3>3
    <2>9. \A x \in ScreenCols(s) : x >= 1 => new[r][x] = s.chr[r][x]
      BY <1>1, <2>2
    <2> QED BY <2>6, <2>7, <2>8, <2>9, <2>10 DEF Pictures
  <1> QED BY <1>2, <1>3

(* The cursor put in another row.                                          *)
LEMMA RowFacts ==
    ASSUME NEW s, Sound(s), NEW y \in Rows, NEW t, t = [s EXCEPT !.vy = y]
    PROVE  /\ Sound(t) /\ (Mirror(s) => Mirror(t))
           /\ t.vw = s.vw /\ t.vis = s.vis /\ t.vx = s.vx /\ t.vy = y
           /\ t.cont = s.cont
  <1>1. s \in Screen /\ s.vx < MaxW
    BY SoundFacts
  <1>2. /\ t \in Screen /\ SameTerminal(s, t)
        /\ t.vw = s.vw /\ t.vis = s.vis /\ t.vx = s.vx /\ t.vy = y
        /\ t.chr = s.chr /\ t.dirty = s.dirty /\ t.ldirty = s.ldirty
        /\ t.cont = s.cont
    BY Zenon, <1>1 DEF Screen, SameTerminal
  <1> QED BY <1>1, <1>2, SoundMoved, SameDisplay DEF SameTerminal

(* The last character falls out, or the cursor is on its cell.             *)
Grows(s) ==
    /\ EndRow(s) \notin s.cont
    /\ s.chr[EndRow(s)][s.vw - 1] # Blank \/ AtEnd(s)

(* The group with its last row joined to the next one.                     *)
Opened(s) == Joining(Pushed(s), {EndRow(s)})

LEMMA OpenedFacts ==
    ASSUME NEW s, Sound(s)
    PROVE  /\ Sound(Opened(s)) /\ (Mirror(s) => Mirror(Opened(s)))
           /\ Opened(s).vw = s.vw /\ Opened(s).vis = s.vis
           /\ Opened(s).vx = s.vx /\ Opened(s).vy = s.vy
           /\ Opened(s).cont = s.cont \cup {EndRow(s)}
           /\ Opened(s).chr = PushedRight(s)
           /\ CleanBelow(s) =>
                 \A r \in Rows, x \in ScreenCols(s) :
                    r > EndRow(s) => x \notin Opened(s).dirty[r]
  <1> DEFINE e == EndRow(s)
             p == Pushed(s)
             t == Opened(s)
  <1>1. Carries(s, p) /\ Stays(s, p) /\ (CleanBelow(s) => CleanBelow(p))
        /\ p.chr = PushedRight(s)
    BY PushedFacts
  <1>2. {e} \in SUBSET Rows
    BY SoundFacts
  <1>3. t = Joining(p, {e})
    BY DEF Opened
  <1> HIDE DEF t, p
  <1>4. Sound(p) /\ (Mirror(s) => Mirror(p)) /\ p.vw = s.vw /\ p.vis = s.vis
        /\ EndRow(p) = e /\ ScreenCols(p) = ScreenCols(s)
    BY <1>1 DEF Carries, Keeps, Stays, EndRow, ScreenCols
  <1>5. /\ Sound(t) /\ (Mirror(p) => Mirror(t))
        /\ t.vw = p.vw /\ t.vis = p.vis /\ t.dirty = p.dirty /\ t.chr = p.chr
        /\ t.vx = p.vx /\ t.vy = p.vy /\ t.cont = p.cont \cup {e}
    BY <1>2, <1>3, <1>4, JoinedFacts
  <1>6. ASSUME CleanBelow(s), NEW r \in Rows, NEW x \in ScreenCols(s), r > e
        PROVE  x \notin t.dirty[r]
    BY <1>1, <1>4, <1>5, <1>6 DEF CleanBelow
  <1> QED BY <1>1, <1>4, <1>5, <1>6 DEF Stays, t

(* InsertOne has one of three outcomes.                                    *)
LEMMA InsertCases ==
    ASSUME NEW s, Sound(s)
    PROVE  LET e == EndRow(s)
               out == s.chr[e][s.vw - 1]
           IN  /\ ~Grows(s) => InsertOne(s) = Pushed(s)
               /\ Grows(s) /\ e + 1 < VH =>
                     InsertOne(s) = Carried(VInsLine(Opened(s), e + 1), e + 1, out)
               /\ Grows(s) /\ ~(e + 1 < VH) =>
                     /\ e = VH - 1
                     /\ InsertOne(s) =
                          Carried([Scroll(Opened(s)) EXCEPT !.vy = s.vy - 1],
                                  VH - 1, out)
               /\ out \in Char
  <1>1. EndRow(s) \in Rows /\ s \in Screen /\ Full(s, s.chr)
        /\ s.chr \in [Rows -> [Cols -> Cell]]
    BY SoundFacts
  <1>2. ~(EndRow(s) + 1 < VH) => EndRow(s) = VH - 1
    <2>1. ASSUME NEW e \in Rows, ~(e + 1 < VH) PROVE e = VH - 1
      BY <2>1, SizeFacts DEF Rows
    <2> QED BY <1>1, <2>1
  <1>3. s.vw - 1 \in ScreenCols(s) /\ s.vw - 1 \in Cols
    BY <1>1, ColumnFacts
  <1>4. s.chr[EndRow(s)][s.vw - 1] \in Char
    BY <1>1, <1>3 DEF Full, Cell
  <1> QED
    BY <1>2, <1>4 DEF InsertOne, Grows, Pushed, Opened, AtEnd, Joining

(* No row is added.                                                        *)
LEMMA InsertKeepsRows ==
    ASSUME NEW s, Sound(s), ~Grows(s), NEW t, t = InsertOne(s)
    PROVE  /\ Sound(t) /\ (Mirror(s) => Mirror(t))
           /\ t.vw = s.vw /\ t.vis = s.vis /\ t.vx = s.vx /\ t.vy = s.vy
           /\ EndRow(t) = EndRow(s)
           /\ CleanBelow(s) => CleanBelow(t)
           /\ \A n \in Nat : BlankFrom(s, n) => BlankFrom(t, n + 1)
           /\ AtEnd(t) => EndRow(t) = VH - 1
  <1>1. t = Pushed(s)
    BY InsertCases
  <1>2. /\ Carries(s, t) /\ Stays(s, t)
        /\ CleanBelow(s) => CleanBelow(t)
        /\ \A n \in Nat : BlankFrom(s, n) => BlankFrom(t, n + 1)
    BY <1>1, PushedFacts
  <1>3. EndRow(t) = EndRow(s)
    BY <1>2 DEF EndRow, Stays
  <1>4. AtEnd(t) => EndRow(t) = VH - 1
    <2>1. Ends(s.cont, s.vy, EndRow(s))
      BY SoundFacts, EndRowFacts
    <2> QED BY <1>2, <1>3, <2>1 DEF AtEnd, Grows, Ends, Carries, Keeps, Stays
  <1> QED BY <1>2, <1>3, <1>4 DEF Carries, Keeps, Stays

(* A row is inserted below the group.                                      *)
LEMMA InsertAddsRow ==
    ASSUME NEW s, Sound(s), Grows(s), EndRow(s) + 1 < VH,
           NEW t, t = InsertOne(s)
    PROVE  /\ Sound(t) /\ (Mirror(s) /\ CleanBelow(s) => Mirror(t))
           /\ t.vw = s.vw /\ t.vis = s.vis /\ t.vx = s.vx /\ t.vy = s.vy
           /\ EndRow(t) = EndRow(s) + 1 /\ t.vy < EndRow(t)
           /\ BlankFrom(t, 1)
  <1> DEFINE e == EndRow(s)
             o == Opened(s)
             u == VInsLine(o, e + 1)
             out == s.chr[e][s.vw - 1]
  <1>1. /\ Sound(o) /\ (Mirror(s) => Mirror(o))
        /\ o.vw = s.vw /\ o.vis = s.vis /\ o.vx = s.vx /\ o.vy = s.vy
        /\ o.cont = s.cont \cup {e}
        /\ CleanBelow(s) => \A r \in Rows, x \in ScreenCols(s) :
                               r > e => x \notin o.dirty[r]
    BY OpenedFacts
  <1>2. t = Carried(u, e + 1, out) /\ out \in Char
    BY InsertCases
  <1>3. /\ e \in Rows /\ s.vy \in Rows /\ s.vy <= e /\ e + 1 \in Rows /\ e + 1 > 0
        /\ e \in Int /\ s.vy \in Int
    BY SoundFacts, SizeFacts DEF Rows
  <1> HIDE DEF o
  <1>4. /\ Sound(u)
        /\ u.vw = o.vw /\ u.vis = o.vis /\ u.vx = o.vx /\ u.vy = o.vy
        /\ u.cont = {r \in Rows : (r < e + 1 /\ r \in o.cont) \/
                                  (r > e + 1 /\ r - 1 \in o.cont)}
        /\ \A x \in ScreenCols(o) : u.chr[e + 1][x] = Blank
        /\ Mirror(o) /\ (\A r \in Rows, x \in ScreenCols(o) :
                            r >= e + 1 => x \notin o.dirty[r]) => Mirror(u)
    BY <1>1, <1>3, InsLineFacts
  <1> HIDE DEF u, out
  <1>5. /\ Sound(t) /\ (Mirror(u) => Mirror(t))
        /\ t.vw = u.vw /\ t.vis = u.vis /\ t.vx = u.vx /\ t.vy = u.vy
        /\ t.cont = u.cont
        /\ \A x \in ScreenCols(u) : x >= 1 => t.chr[e + 1][x] = u.chr[e + 1][x]
    <2>1. Sound(u) /\ e + 1 \in Rows /\ out \in Char
      BY <1>2, <1>3, <1>4
    <2> QED BY <1>2, <2>1, CarriedFacts
  <1>6. Mirror(s) /\ CleanBelow(s) => Mirror(t)
    <2>1. \A r \in Rows : r >= e + 1 => r > e
      BY <1>3, SizeFacts DEF Rows
    <2>2. ScreenCols(o) = ScreenCols(s)
      BY <1>1 DEF ScreenCols
    <2> QED BY <1>1, <1>4, <1>5, <2>1, <2>2
  <1>7. EndRow(t) = e + 1
    <2>1. Ends(s.cont, s.vy, e)
      BY SoundFacts, EndRowFacts
    <2>2. \A r \in s.vy .. e : r \in t.cont
      <3>1. SUFFICES ASSUME NEW r \in s.vy .. e PROVE r \in t.cont
        OBVIOUS
      <3>2. r \in Rows /\ r < e + 1
        BY <1>3, SizeFacts DEF Rows
      <3>3. r \in s.cont \cup {e}
        BY <1>3, <2>1 DEF Ends
      <3> QED BY <1>1, <1>4, <1>5, <3>2, <3>3
    <2>3. e + 1 \notin t.cont
      BY <1>3, <1>4, <1>5
    <2>4. Ends(t.cont, s.vy, e + 1)
      BY <1>3, <2>2, <2>3 DEF Ends
    <2>5. t.vy = s.vy
      BY <1>1, <1>4, <1>5
    <2> QED BY <1>3, <2>4, <2>5, EndIs DEF EndRow
  <1>8. BlankFrom(t, 1)
    <2>1. ScreenCols(t) = ScreenCols(o) /\ ScreenCols(u) = ScreenCols(o)
      BY <1>4, <1>5 DEF ScreenCols
    <2> QED BY <1>4, <1>5, <1>7, <2>1 DEF BlankFrom
  <1>9. t.vy < EndRow(t)
    BY <1>1, <1>3, <1>4, <1>5, <1>7
  <1> QED BY <1>1, <1>4, <1>5, <1>6, <1>7, <1>8, <1>9

(* The group reaches the bottom: the screen scrolls for another row.       *)
LEMMA InsertScrolls ==
    ASSUME NEW s, Sound(s), Grows(s), ~(EndRow(s) + 1 < VH),
           NEW t, t = InsertOne(s), ~Outside(t)
    PROVE  /\ Sound(t) /\ (Mirror(s) => Mirror(t))
           /\ s.vx < s.vw => t.vx < t.vw
           /\ t.vw = s.vw /\ t.vis = s.vis /\ t.vx = s.vx
           /\ EndRow(t) = VH - 1
  <1> DEFINE e == EndRow(s)
             o == Opened(s)
             u == Scroll(o)
             y == s.vy - 1
             v == [u EXCEPT !.vy = y]
             out == s.chr[e][s.vw - 1]
  <1>1. /\ Sound(o) /\ (Mirror(s) => Mirror(o))
        /\ o.vw = s.vw /\ o.vis = s.vis /\ o.vx = s.vx /\ o.vy = s.vy
        /\ o.cont = s.cont \cup {e}
    BY OpenedFacts
  <1>2. t = Carried(v, VH - 1, out) /\ out \in Char /\ e = VH - 1
    BY InsertCases
  <1> HIDE DEF o
  <1>3. /\ Carries(o, u) /\ u.vx = o.vx /\ u.cont = ShiftUp(o.cont)
    BY <1>1, ScrollFacts
  <1>4. /\ Sound(u) /\ (Mirror(o) => Mirror(u)) /\ u \in Screen
        /\ u.vw = s.vw /\ u.vis = s.vis
    BY <1>1, <1>3 DEF Carries, Keeps, Sound
  <1> HIDE DEF u, out
  <1>5. s.vy \in Nat /\ s.vy \in Rows /\ VH \in Nat /\ VH - 1 \in Rows
    BY SoundFacts, SizeFacts
  <1>6. y \in Rows
    <2>1. v.vy = y
      BY Zenon, <1>4 DEF Screen
    <2>2. t.vy = v.vy
      <3>1. \/ t = v
            \/ t = [v EXCEPT !.chr[VH - 1][0] = out,
                             !.dirty[VH - 1] = @ \cup {0},
                             !.ldirty = @ \cup {VH - 1}]
        BY <1>2 DEF Carried
      <3> QED BY Zenon, <1>4, <3>1 DEF Screen
    <2>3. y >= 0
      BY <1>5, <2>1, <2>2 DEF Outside
    <2> QED BY <1>5, <2>3 DEF Rows
  <1> HIDE DEF y
  <1>7. /\ Sound(v) /\ (Mirror(u) => Mirror(v))
        /\ v.vw = u.vw /\ v.vis = u.vis /\ v.vx = u.vx /\ v.vy = y
        /\ v.cont = u.cont
    BY <1>4, <1>6, RowFacts
  <1> HIDE DEF v
  <1>8. /\ Sound(t) /\ (Mirror(v) => Mirror(t))
        /\ t.vw = v.vw /\ t.vis = v.vis /\ t.vx = v.vx /\ t.vy = v.vy
        /\ t.cont = v.cont
    BY <1>2, <1>5, <1>7, CarriedFacts
  <1>9. EndRow(t) = VH - 1
    <2>1. Ends(s.cont, s.vy, e)
      BY SoundFacts, EndRowFacts
    <2>2. ASSUME NEW r \in y .. VH - 2 PROVE r \in t.cont
      <3>1. r \in Rows /\ r < VH - 1 /\ r + 1 \in s.vy .. VH - 1 /\ VH - 1 = e
        BY <1>2, <1>5, <1>6 DEF Rows, y
      <3>2. r + 1 \in s.cont \cup {e}
        BY <1>5, <2>1, <3>1 DEF Ends
      <3> QED BY <1>1, <1>3, <1>7, <1>8, <3>1, <3>2 DEF ShiftUp
    <2>3. Ends(t.cont, y, VH - 1)
      BY <1>5, <1>6, <2>2 DEF Ends, Rows
    <2> QED BY <1>6, <1>7, <1>8, <2>3, EndIs DEF EndRow
  <1> QED BY <1>1, <1>3, <1>4, <1>7, <1>8, <1>9

(* The blanks of scr_insert, one after the other.                          *)
InsertNext(u) == IF Outside(u) THEN u ELSE InsertOne(u)

LEMMA InsertSteps ==
    ASSUME NEW s, NEW num \in Nat
    PROVE  \E f : /\ Insert(s, num) = f[num] /\ f[0] = s
                  /\ \A n \in 0 .. num - 1 : f[n + 1] = InsertNext(f[n])
  <1> DEFINE Is(f, k) == f = [n \in 0 .. k |->
                                 IF n = 0 THEN s ELSE InsertNext(f[n - 1])]
             S == {k \in Nat : \E f : Is(f, k)}
  <1>1. 0 \in S
    <2>1. Is([n \in 0 .. 0 |-> s], 0)
      OBVIOUS
    <2> QED BY <2>1
  <1>2. ASSUME NEW k \in 0 .. num - 1, k \in S PROVE k + 1 \in S
    <2>1. PICK f : Is(f, k)
      BY <1>2
    <2> DEFINE g == [n \in 0 .. k + 1 |-> IF n <= k THEN f[n] ELSE InsertNext(f[k])]
    <2>2. ASSUME NEW n \in 0 .. k + 1
          PROVE  g[n] = IF n = 0 THEN s ELSE InsertNext(g[n - 1])
      <3>1. CASE n = 0
        BY <2>1, <3>1
      <3>2. CASE n # 0 /\ n <= k
        <4>1. n \in 0 .. k /\ n - 1 \in 0 .. k /\ n - 1 \in 0 .. k + 1
          BY <3>2
        <4> QED BY <2>1, <3>2, <4>1
      <3>3. CASE n = k + 1
        BY <3>3
      <3> QED BY <3>1, <3>2, <3>3
    <2>3. Is(g, k + 1)
      <3>1. g = [n \in 0 .. k + 1 |-> g[n]]
        OBVIOUS
      <3> HIDE DEF g
      <3>2. [n \in 0 .. k + 1 |-> g[n]] =
            [n \in 0 .. k + 1 |-> IF n = 0 THEN s ELSE InsertNext(g[n - 1])]
        BY <2>2
      <3> QED BY <3>1, <3>2
    <2>4. k + 1 \in Nat
      OBVIOUS
    <2> HIDE DEF g, Is
    <2> QED BY <2>3, <2>4
  <1>3. num \in S
    <2> HIDE DEF S
    <2>1. \A n \in 0 .. num : n \in S
      BY <1>1, <1>2, CountingUp
    <2> QED BY <2>1
  <1> DEFINE f == CHOOSE f : f = [n \in 0 .. num |->
                                    IF n = 0 THEN s ELSE InsertNext(f[n - 1])]
  <1>4. Is(f, num)
    BY <1>3
  <1>5. Insert(s, num) = f[num]
    BY Zenon DEF Insert, InsertNext
  <1> HIDE DEF f
  <1>6. f[0] = s
    BY <1>4
  <1>7. ASSUME NEW n \in 0 .. num - 1 PROVE f[n + 1] = InsertNext(f[n])
    <2>1. n + 1 \in 0 .. num /\ n + 1 # 0 /\ (n + 1) - 1 = n
      OBVIOUS
    <2> QED BY <1>4, <2>1
  <1> QED BY <1>5, <1>6, <1>7

(* One blank: the marks are lost only when a row is inserted above rows    *)
(* that are yet to be drawn, and it is not as long as the group ends in    *)
(* enough blanks.                                                          *)
LEMMA InsertOneFacts ==
    ASSUME NEW u, Sound(u), NEW n \in Nat, NEW t, t = InsertOne(u), ~Outside(t)
    PROVE  /\ Sound(t) /\ t.vw = u.vw /\ t.vis = u.vis /\ t.vx = u.vx
           /\ AtEnd(t) => EndRow(t) = VH - 1
           /\ Mirror(u) /\ CleanBelow(u) =>
                 /\ Mirror(t)
                 /\ CleanBelow(t) \/ (BlankFrom(t, n + 1) /\ t.vy < EndRow(t))
           /\ Mirror(u) /\ BlankFrom(u, n) /\ n < u.vw /\ ~AtEnd(u) =>
                 /\ Mirror(t) /\ BlankFrom(t, n + 1)
                 /\ t.vy = u.vy /\ EndRow(t) = EndRow(u)
  <1>1. u.vw \in Nat /\ u.vw - 1 \in ScreenCols(u)
    BY SoundFacts, ColumnFacts
  <1>2. CASE ~Grows(u)
    BY <1>2, InsertKeepsRows
  <1>3. CASE Grows(u) /\ EndRow(u) + 1 < VH
    <2>1. BlankFrom(u, n) /\ n < u.vw => AtEnd(u)
      BY <1>1, <1>3 DEF Grows, BlankFrom
    <2>2. /\ Sound(t) /\ (Mirror(u) /\ CleanBelow(u) => Mirror(t))
          /\ t.vw = u.vw /\ t.vis = u.vis /\ t.vx = u.vx
          /\ t.vy < EndRow(t) /\ BlankFrom(t, 1)
      BY <1>3, InsertAddsRow
    <2>3. BlankFrom(t, n + 1)
      <3>1. ASSUME NEW x \in ScreenCols(t), x >= n + 1 PROVE x >= 1
        BY <1>1, <2>2, <3>1 DEF ScreenCols
      <3> QED BY <2>2, <3>1 DEF BlankFrom
    <2>4. ~AtEnd(t)
      <3>1. t.vy \in Nat /\ EndRow(t) \in Rows
        BY <2>2, SoundFacts
      <3> QED BY <2>2, <3>1, SizeFacts DEF AtEnd, Rows
    <2> QED BY <2>1, <2>2, <2>3, <2>4
  <1>4. CASE Grows(u) /\ ~(EndRow(u) + 1 < VH)
    <2>1. /\ Sound(t) /\ (Mirror(u) => Mirror(t))
          /\ t.vw = u.vw /\ t.vis = u.vis /\ t.vx = u.vx
          /\ EndRow(t) = VH - 1
      BY <1>4, InsertScrolls
    <2>2. CleanBelow(t)
      BY <2>1, SizeFacts DEF CleanBelow, Rows
    <2>3. BlankFrom(u, n) /\ n < u.vw => AtEnd(u)
      BY <1>1, <1>4 DEF Grows, BlankFrom
    <2> QED BY <2>1, <2>2, <2>3
  <1> QED BY <1>2, <1>3, <1>4

(* The screen u after n of the blanks of a tab.                            *)
Inserting(s, u, n) ==
    /\ Sound(u) /\ u.vw = s.vw /\ u.vis = s.vis /\ u.vx = s.vx
    /\ Fresh(s) /\ n <= s.vw => Mirror(u) /\ (CleanBelow(u) \/ BlankFrom(u, n))

LEMMA InsertingNext ==
    ASSUME NEW s, NEW u, NEW n \in Nat, Inserting(s, u, n), s.vx + 1 < s.vw,
           NEW t, t = InsertOne(u), ~Outside(t)
    PROVE  Inserting(s, t, n + 1)
  <1>1. /\ Sound(u) /\ u.vw = s.vw /\ u.vis = s.vis /\ u.vx = s.vx
        /\ Fresh(s) /\ n <= s.vw => Mirror(u) /\ (CleanBelow(u) \/ BlankFrom(u, n))
    BY DEF Inserting
  <1>2. u.vw \in Nat /\ u.vx \in Nat /\ u.vx + 1 < u.vw
    BY <1>1, SoundFacts
  <1>3. ~AtEnd(u) /\ (n + 1 <= s.vw => n < u.vw /\ n <= s.vw)
    BY <1>1, <1>2 DEF AtEnd
  <1>4. /\ Sound(t) /\ t.vw = u.vw /\ t.vis = u.vis /\ t.vx = u.vx
        /\ Mirror(u) /\ CleanBelow(u) =>
              Mirror(t) /\ (CleanBelow(t) \/ BlankFrom(t, n + 1))
        /\ Mirror(u) /\ BlankFrom(u, n) /\ n < u.vw /\ ~AtEnd(u) =>
              Mirror(t) /\ BlankFrom(t, n + 1)
    BY <1>1, InsertOneFacts
  <1> QED BY <1>1, <1>3, <1>4 DEF Inserting

LEMMA InsertFacts ==
    ASSUME NEW s, Sound(s), NEW num \in Nat, s.vx + 1 < s.vw,
           NEW t, t = Insert(s, num)
    PROVE  Outside(t) \/ Inserting(s, t, num)
  <1>1. PICK f : /\ t = f[num] /\ f[0] = s
                 /\ \A n \in 0 .. num - 1 : f[n + 1] = InsertNext(f[n])
    BY InsertSteps
  <1> DEFINE S == {n \in Nat : Outside(f[n]) \/ Inserting(s, f[n], n)}
  <1>2. 0 \in S
    <2>1. Fresh(s) => Mirror(s) /\ CleanBelow(s)
      BY FreshMirror DEF Fresh, CleanBelow
    <2> QED BY <1>1, <2>1 DEF Inserting
  <1>3. ASSUME NEW n \in 0 .. num - 1, n \in S PROVE n + 1 \in S
    <2>1. n \in Nat /\ n + 1 \in Nat
      OBVIOUS
    <2>2. CASE Outside(f[n])
      BY <1>1, <2>1, <2>2 DEF InsertNext
    <2>3. CASE ~Outside(f[n])
      <3>1. f[n + 1] = InsertOne(f[n]) /\ Inserting(s, f[n], n)
        BY <1>1, <1>3, <2>3 DEF InsertNext
      <3>2. Outside(f[n + 1]) \/ Inserting(s, f[n + 1], n + 1)
        BY <2>1, <3>1, InsertingNext
      <3> QED BY <2>1, <3>2
    <2> QED BY <2>2, <2>3
  <1>4. num \in S
    <2> HIDE DEF S
    <2>1. \A n \in 0 .. num : n \in S
      BY <1>2, <1>3, CountingUp
    <2> QED BY <2>1
  <1> QED BY <1>1, <1>4

-----------------------------------------------------------------------------
(* A character put and not yet drawn.                                      *)

Scrolls(s) == s.vx = s.vw - 1 /\ s.vy = VH - 1

(* Of the cells, c is put at the cursor; of the marks, those of its row.   *)
PutAt(s, u, c) ==
    /\ \A r \in Rows, x \in Cols :
          u.chr[r][x] = IF r = s.vy /\ x = s.vx THEN c ELSE s.chr[r][x]
    /\ \A r \in Rows : r # s.vy => u.dirty[r] = s.dirty[r]

(* The screen u is s with c put at the cursor, unless s had to scroll.     *)
PutDown(s, u, c) ==
    /\ s.vx + 1 < s.vw => u.vx = s.vx + 1 /\ u.vy = s.vy /\ u.cont = s.cont
    /\ ~(s.vx + 1 < s.vw) => u.vx = 0
    /\ ~(s.vx + 1 < s.vw) /\ s.vy + 1 < VH =>
          u.vy = s.vy + 1 /\ u.cont = s.cont \cup {s.vy}
    /\ Scrolls(s) => u.vy = VH - 1
    /\ ~Scrolls(s) => PutAt(s, u, c)

LEMMA PutAtSame ==
    ASSUME NEW s, NEW p, NEW c, PutAt(s, p, c),
           NEW u, u.chr = p.chr, u.dirty = p.dirty
    PROVE  PutAt(s, u, c)
  BY DEF PutAt

LEMMA PutCellLater ==
    ASSUME NEW s, Sound(s), NEW c \in Char, NEW p, p = PutCell(s, c, FALSE)
    PROVE  PutAt(s, p, c)
  <1>1. s \in Screen /\ s.chr \in [Rows -> [Cols -> Cell]] /\ s.vx \in Cols
        /\ s.vy \in Rows
    BY SoundFacts
  <1>2. s.dirty \in [Rows -> SUBSET Cols]
    BY Zenon, <1>1 DEF Screen
  <1>3. CASE s.chr[s.vy][s.vx] = c
    BY <1>3 DEF PutCell, PutAt
  <1>4. CASE s.chr[s.vy][s.vx] # c
    <2> DEFINE new == [s.chr EXCEPT ![s.vy][s.vx] = c]
               D == [s.dirty EXCEPT ![s.vy] = @ \cup {s.vx}]
               L == s.ldirty \cup {s.vy}
    <2>1. p = [[s EXCEPT !.chr = new] EXCEPT !.dirty = D, !.ldirty = L]
      BY Zenon, <1>1, <1>4 DEF PutCell, Screen
    <2>2. \A r \in Rows, x \in Cols :
             new[r][x] = IF r = s.vy /\ x = s.vx THEN c ELSE s.chr[r][x]
      BY <1>1
    <2>3. \A r \in Rows : r # s.vy => D[r] = s.dirty[r]
      BY <1>2
    <2> HIDE DEF new, D, L
    <2>4. p.chr = new /\ p.dirty = D
      BY Zenon, <1>1, <2>1 DEF Screen
    <2> QED BY <2>2, <2>3, <2>4 DEF PutAt
  <1> QED BY <1>3, <1>4

LEMMA PutDownFacts ==
    ASSUME NEW s, Sound(s), s.vx < s.vw, NEW c \in Char,
           NEW u, u = VPutc(s, c, FALSE)
    PROVE  Carries(s, u) /\ Ended(u, FALSE) /\ PutDown(s, u, c)
  <1> DEFINE p == PutCell(s, c, FALSE)
             a == Advance(p)
  <1>1. Carries(s, u) /\ Ended(u, FALSE)
    BY VPutcFacts
  <1>2. /\ Carries(s, p) /\ p.vx = s.vx /\ p.vy = s.vy /\ p.cont = s.cont
        /\ PutAt(s, p, c)
    <2>1. Carries(s, p) /\ p.vx = s.vx /\ p.vy = s.vy /\ p.cont = s.cont
      BY PutCellFacts
    <2>2. p = PutCell(s, c, FALSE)
      OBVIOUS
    <2> HIDE DEF p
    <2> QED BY <2>1, <2>2, PutCellLater
  <1>3. Sound(p) /\ p \in Screen /\ p.vw = s.vw
    BY <1>2 DEF Carries, Keeps, Sound
  <1> HIDE DEF p
  <1>4. Sound(a) /\ a \in Screen
    BY <1>3, AdvanceFacts DEF Carries, Sound
  <1>5. u = XySync(a)
    BY DEF VPutc, Show, p
  <1>6. /\ s.vx \in Nat /\ s.vy \in Nat /\ s.vy < VH /\ s.vw \in Nat /\ s.vx < s.vw
        /\ VH \in Nat
    BY SoundFacts, SizeFacts
  <1>7. CASE s.vx + 1 < s.vw
    <2>1. a = [p EXCEPT !.vx = s.vx + 1]
      BY <1>2, <1>3, <1>7 DEF Advance
    <2>2. /\ a.vx = s.vx + 1 /\ a.vy = p.vy /\ a.cont = p.cont
          /\ a.chr = p.chr /\ a.dirty = p.dirty
      BY Zenon, <1>3, <2>1 DEF Screen
    <2> HIDE DEF a
    <2>3. /\ u.vx = a.vx /\ u.vy = a.vy /\ u.cont = a.cont
          /\ u.chr = a.chr /\ u.dirty = a.dirty
      <3>1. a \in Screen
        BY <1>4
      <3>2. /\ XySync(a).vx = a.vx /\ XySync(a).vy = a.vy
            /\ XySync(a).cont = a.cont /\ XySync(a).chr = a.chr
            /\ XySync(a).dirty = a.dirty
        BY ZenonT(40), <3>1 DEF XySync, Screen
      <3> QED BY <1>5, <3>2
    <2>4. ~Scrolls(s)
      BY <1>6, <1>7 DEF Scrolls
    <2>5. /\ u.vx = s.vx + 1 /\ u.vy = s.vy /\ u.cont = s.cont
          /\ u.chr = p.chr /\ u.dirty = p.dirty
      BY <1>2, <2>2, <2>3
    <2>6. PutAt(s, u, c)
      BY <1>2, <2>5, PutAtSame
    <2>7. PutDown(s, u, c)
      BY <1>7, <2>4, <2>5, <2>6 DEF PutDown
    <2> QED BY <1>1, <2>7
  <1>8. CASE ~(s.vx + 1 < s.vw) /\ s.vy + 1 < VH
    <2>1. a = [p EXCEPT !.vx = 0, !.vy = s.vy + 1, !.cont = p.cont \cup {s.vy}]
      BY <1>2, <1>3, <1>8 DEF Advance
    <2>2. /\ a.vx = 0 /\ a.vy = s.vy + 1 /\ a.cont = p.cont \cup {s.vy}
          /\ a.chr = p.chr /\ a.dirty = p.dirty
      BY Zenon, <1>3, <2>1 DEF Screen
    <2> HIDE DEF a
    <2>3. /\ u.vx = a.vx /\ u.vy = a.vy /\ u.cont = a.cont
          /\ u.chr = a.chr /\ u.dirty = a.dirty
      <3>1. a \in Screen
        BY <1>4
      <3>2. /\ XySync(a).vx = a.vx /\ XySync(a).vy = a.vy
            /\ XySync(a).cont = a.cont /\ XySync(a).chr = a.chr
            /\ XySync(a).dirty = a.dirty
        BY ZenonT(40), <3>1 DEF XySync, Screen
      <3> QED BY <1>5, <3>2
    <2>4. ~Scrolls(s)
      BY <1>6, <1>8 DEF Scrolls
    <2>5. /\ u.vx = 0 /\ u.vy = s.vy + 1 /\ u.cont = s.cont \cup {s.vy}
          /\ u.chr = p.chr /\ u.dirty = p.dirty
      BY <1>2, <2>2, <2>3
    <2>6. PutAt(s, u, c)
      BY <1>2, <2>5, PutAtSame
    <2>7. PutDown(s, u, c)
      BY <1>8, <2>4, <2>5, <2>6 DEF PutDown
    <2> QED BY <1>1, <2>7
  <1>9. CASE ~(s.vx + 1 < s.vw) /\ ~(s.vy + 1 < VH)
    <2> DEFINE v == Scroll(p)
    <2>1. v \in Screen
      BY <1>3, ScrollFacts DEF Carries, Sound
    <2>2. a = [v EXCEPT !.vx = 0, !.vy = VH - 1, !.cont = @ \cup {p.vy - 1}]
      BY <1>2, <1>3, <1>9 DEF Advance
    <2> HIDE DEF v
    <2>3. a.vx = 0 /\ a.vy = VH - 1
      BY Zenon, <2>1, <2>2 DEF Screen
    <2> HIDE DEF a
    <2>4. u.vx = a.vx /\ u.vy = a.vy
      BY <1>4, <1>5, XySyncFacts
    <2>5. Scrolls(s)
      BY <1>6, <1>9 DEF Scrolls
    <2> QED BY <1>1, <1>9, <2>3, <2>4, <2>5 DEF PutDown
  <1> QED BY <1>7, <1>8, <1>9

(* Within a group that does not have to grow, the group stays.             *)
LEMMA PutInGroup ==
    ASSUME NEW s, Sound(s), s.vx < s.vw, AtEnd(s) => EndRow(s) = VH - 1,
           NEW c \in Char, NEW u, u = VPutc(s, c, FALSE)
    PROVE  /\ EndRow(u) = EndRow(s)
           /\ CleanBelow(s) => CleanBelow(u)
           /\ \A n \in Nat \ {0} :
                 /\ n <= s.vw /\ BlankFrom(s, n)
                 /\ s.vy < EndRow(s) \/ s.vx + 1 < n
                 => /\ BlankFrom(u, n)
                    /\ u.vy < EndRow(u) \/ u.vx < n
  <1> DEFINE e == EndRow(s)
  <1>1. Sound(u) /\ u.vw = s.vw /\ PutDown(s, u, c)
    BY PutDownFacts DEF Carries, Keeps
  <1>2. /\ s.vx \in Nat /\ s.vy \in Nat /\ s.vy < VH /\ s.vw \in Nat /\ s.vw > 0
        /\ VH \in Nat /\ e \in Rows /\ s.vy <= e /\ s.vy \in Rows
    BY SoundFacts, SizeFacts
  <1>3. /\ ScreenCols(u) = ScreenCols(s)
        /\ \A x \in ScreenCols(s) : x \in Cols
    BY <1>1, SoundFacts, ColumnFacts DEF ScreenCols
  <1>10. Ends(s.cont, s.vy, e) /\ e = EndRow(s) /\ (AtEnd(s) => e = VH - 1)
    BY SoundFacts, EndRowFacts
  <1> HIDE DEF e
  <1>11. e \in Nat /\ e < VH
    BY <1>2 DEF Rows
  <1>4. CASE Scrolls(s)
    <2>1. u.vy = VH - 1 /\ s.vy = VH - 1 /\ s.vx = s.vw - 1
      BY <1>1, <1>4 DEF Scrolls, PutDown
    <2>2. e = VH - 1
      BY <1>2, <1>11, <2>1
    <2>3. EndRow(u) = VH - 1
      <3>1. EndRow(u) \in Rows /\ u.vy <= EndRow(u)
        BY <1>1, SoundFacts
      <3>2. ASSUME NEW r \in Rows, VH - 1 <= r PROVE r = VH - 1
        BY <1>2, <3>2 DEF Rows
      <3> QED BY <2>1, <3>1, <3>2
    <2>4. CleanBelow(u)
      <3>1. ASSUME NEW r \in Rows PROVE ~(r > VH - 1)
        BY <1>2 DEF Rows
      <3> QED BY <2>3, <3>1 DEF CleanBelow
    <2>5. ASSUME NEW n \in Nat, n <= s.vw, s.vy < e \/ s.vx + 1 < n PROVE FALSE
      BY <1>2, <2>1, <2>2, <2>5
    <2> QED BY <1>10, <2>2, <2>3, <2>4, <2>5
  <1>5. CASE ~Scrolls(s)
    <2>1. EndRow(u) = e /\ (u.vy = s.vy \/ (u.vy = s.vy + 1 /\ u.vx = 0 /\ s.vy < e))
      <3>1. CASE s.vx + 1 < s.vw
        BY <1>1, <1>10, <3>1 DEF PutDown, EndRow
      <3>2. CASE ~(s.vx + 1 < s.vw)
        <4>1. s.vx = s.vw - 1 /\ s.vy + 1 < VH
          BY <1>2, <1>5, <3>2 DEF Scrolls
        <4>2. s.vy # e
          BY <1>2, <1>10, <4>1 DEF AtEnd
        <4>3. u.vx = 0 /\ u.vy = s.vy + 1 /\ u.cont = s.cont \cup {s.vy}
          BY <1>1, <3>2, <4>1 DEF PutDown
        <4>4. Ends(u.cont, s.vy + 1, e) /\ s.vy + 1 \in Rows
          <5>1. s.vy + 1 <= e /\ s.vy + 1 \in Rows
            BY <1>2, <1>11, <4>1, <4>2 DEF Rows
          <5>2. \A r \in s.vy + 1 .. e - 1 : r \in s.vy .. e - 1
            BY <1>2, <1>11
          <5>3. e \in u.cont => e \in s.cont
            BY <4>2, <4>3
          <5> QED BY <1>2, <1>10, <4>3, <5>1, <5>2, <5>3 DEF Ends
        <4>5. EndRow(u) = e
          BY <1>2, <4>3, <4>4, EndIs DEF EndRow
        <4>6. s.vy < e
          BY <1>2, <1>11, <4>2
        <4> QED BY <4>3, <4>5, <4>6
      <3> QED BY <3>1, <3>2
    <2>2. /\ \A r \in Rows, x \in Cols :
                u.chr[r][x] = IF r = s.vy /\ x = s.vx THEN c ELSE s.chr[r][x]
          /\ \A r \in Rows : r # s.vy => u.dirty[r] = s.dirty[r]
      BY <1>1, <1>5 DEF PutDown, PutAt
    <2>3. ASSUME CleanBelow(s) PROVE CleanBelow(u)
      <3>1. ASSUME NEW r \in Rows, r > e PROVE r # s.vy
        BY <1>2, <3>1 DEF Rows
      <3> QED BY <1>3, <1>10, <2>1, <2>2, <2>3, <3>1 DEF CleanBelow
    <2>4. ASSUME NEW n \in Nat \ {0}, n <= s.vw, BlankFrom(s, n),
                 s.vy < e \/ s.vx + 1 < n
          PROVE  BlankFrom(u, n) /\ (u.vy < EndRow(u) \/ u.vx < n)
      <3>1. ASSUME NEW x \in ScreenCols(s), x >= n PROVE ~(e = s.vy /\ x = s.vx)
        BY <1>2, <2>4, <3>1 DEF ScreenCols
      <3>2. BlankFrom(u, n)
        <4>1. SUFFICES ASSUME NEW x \in ScreenCols(s), x >= n
                       PROVE  u.chr[e][x] = Blank
          BY <1>3, <2>1 DEF BlankFrom
        <4>2. u.chr[e][x] = s.chr[e][x]
          BY <1>2, <1>3, <2>2, <3>1, <4>1
        <4> QED BY <1>10, <2>4, <4>1, <4>2 DEF BlankFrom
      <3>3. u.vy < e \/ u.vx < n
        <4>1. CASE s.vy < e /\ u.vy = s.vy
          BY <4>1
        <4>2. CASE ~(s.vy < e)
          <5>1. s.vx + 1 < s.vw /\ s.vx + 1 < n
            BY <1>2, <2>4, <4>2
          <5> QED BY <1>1, <5>1 DEF PutDown
        <4>3. CASE s.vy < e /\ u.vy = s.vy + 1 /\ u.vx = 0
          <5>1. n > 0
            OBVIOUS
          <5> QED BY <4>3, <5>1
        <4> QED BY <2>1, <4>1, <4>2, <4>3
      <3> QED BY <2>1, <3>2, <3>3
    <2> QED BY <1>10, <2>1, <2>3, <2>4
  <1> QED BY <1>4, <1>5

(* A character inserted: scr_insert and the character over the blank.  The *)
(* screen u is what n characters have made of s.                           *)
Yanking(s, u, n) ==
    /\ Sound(u) /\ u.vw = s.vw /\ u.vis = s.vis /\ u.vx < u.vw
    /\ s.xy = <<s.vx, s.vy>> => u.xy = <<u.vx, u.vy>>
    /\ Fresh(s) /\ (imode => n <= s.vw) => Mirror(u)
    /\ Fresh(s) /\ imode /\ n <= s.vw =>
          \/ CleanBelow(u)
          \/ BlankFrom(u, n) /\ (u.vy < EndRow(u) \/ u.vx < n)

LEMMA YankingInsCh ==
    ASSUME NEW s, NEW u, NEW n \in Nat, Yanking(s, u, n), imode, NEW c \in Char,
           NEW t, t = InsCh(u, c), ~Outside(t)
    PROVE  Yanking(s, t, n + 1)
  <1> DEFINE i == InsertOne(u)
  <1>1. ~Outside(i) /\ t = VPutc(i, c, FALSE)
    BY DEF InsCh
  <1>2. /\ Sound(u) /\ u.vw = s.vw /\ u.vis = s.vis /\ u.vx < u.vw
        /\ Fresh(s) /\ n <= s.vw =>
              /\ Mirror(u)
              /\ \/ CleanBelow(u)
                 \/ BlankFrom(u, n) /\ (u.vy < EndRow(u) \/ u.vx < n)
    BY DEF Yanking
  <1>3. /\ u.vx \in Nat /\ u.vy \in Nat /\ u.vw \in Nat
        /\ EndRow(u) \in Nat /\ u.vy <= EndRow(u)
    <2>1. EndRow(u) \in Rows
      BY <1>2, SoundFacts
    <2> QED BY <1>2, <2>1, SoundFacts, SizeFacts DEF Rows
  <1>4. /\ Sound(i) /\ i.vw = u.vw /\ i.vis = u.vis /\ i.vx = u.vx
        /\ AtEnd(i) => EndRow(i) = VH - 1
        /\ Mirror(u) /\ CleanBelow(u) =>
              /\ Mirror(i)
              /\ CleanBelow(i) \/ (BlankFrom(i, n + 1) /\ i.vy < EndRow(i))
        /\ Mirror(u) /\ BlankFrom(u, n) /\ n < u.vw /\ ~AtEnd(u) =>
              /\ Mirror(i) /\ BlankFrom(i, n + 1)
              /\ i.vy = u.vy /\ EndRow(i) = EndRow(u)
    BY <1>1, <1>2, InsertOneFacts
  <1> HIDE DEF i
  <1>5. ASSUME Fresh(s), n + 1 <= s.vw
        PROVE  /\ Mirror(i)
               /\ \/ CleanBelow(i)
                  \/ /\ BlankFrom(i, n + 1)
                     /\ i.vy < EndRow(i) \/ i.vx + 1 < n + 1
    <2>1. n <= s.vw /\ n < u.vw
      BY <1>2, <1>3, <1>5
    <2>2. u.vy < EndRow(u) \/ u.vx < n => ~AtEnd(u)
      BY <1>3, <2>1 DEF AtEnd
    <2>3. CASE CleanBelow(u)
      BY <1>2, <1>4, <1>5, <2>1, <2>3
    <2>4. CASE BlankFrom(u, n) /\ (u.vy < EndRow(u) \/ u.vx < n)
      <3>1. i.vy = u.vy /\ EndRow(i) = EndRow(u) =>
               i.vy < EndRow(i) \/ i.vx + 1 < n + 1
        BY <1>3, <1>4, <2>4
      <3> QED BY <1>2, <1>4, <1>5, <2>1, <2>2, <2>4, <3>1
    <2> QED BY <1>2, <1>5, <2>1, <2>3, <2>4
  <1>6. /\ EndRow(t) = EndRow(i)
        /\ CleanBelow(i) => CleanBelow(t)
        /\ n + 1 <= i.vw /\ BlankFrom(i, n + 1)
           /\ (i.vy < EndRow(i) \/ i.vx + 1 < n + 1) =>
              BlankFrom(t, n + 1) /\ (t.vy < EndRow(t) \/ t.vx < n + 1)
    <2>1. n + 1 \in Nat \ {0} /\ i.vx < i.vw /\ Sound(i)
          /\ (AtEnd(i) => EndRow(i) = VH - 1)
      BY <1>2, <1>4
    <2>2. /\ EndRow(t) = EndRow(i)
          /\ CleanBelow(i) => CleanBelow(t)
          /\ \A m \in Nat \ {0} :
                 /\ m <= i.vw /\ BlankFrom(i, m)
                 /\ i.vy < EndRow(i) \/ i.vx + 1 < m
                 => /\ BlankFrom(t, m)
                    /\ t.vy < EndRow(t) \/ t.vx < m
      BY <1>1, <2>1, PutInGroup
    <2> QED BY <2>1, <2>2
  <1>7. Carries(i, t) /\ Ended(t, FALSE)
    BY <1>1, <1>2, <1>4, PutDownFacts
  <1>8. /\ Sound(t) /\ t.vw = u.vw /\ t.vis = u.vis /\ t.vx < t.vw
        /\ t.xy = <<t.vx, t.vy>> /\ (Mirror(i) => Mirror(t))
    BY <1>2, <1>4, <1>7 DEF Carries, Keeps, Ended
  <1>9. ASSUME Fresh(s), n + 1 <= s.vw
        PROVE  /\ Mirror(t)
               /\ \/ CleanBelow(t)
                  \/ BlankFrom(t, n + 1) /\ (t.vy < EndRow(t) \/ t.vx < n + 1)
    BY <1>2, <1>4, <1>5, <1>6, <1>8, <1>9
  <1> QED BY <1>2, <1>8, <1>9 DEF Yanking

LEMMA YankingNext ==
    ASSUME NEW s, NEW u, NEW n \in Nat, imode \in BOOLEAN, NEW c \in Char,
           Outside(u) \/ Yanking(s, u, n), NEW t, t = YankOne(u, c)
    PROVE  Outside(t) \/ Yanking(s, t, n + 1)
  <1>1. CASE Outside(u)
    BY <1>1 DEF YankOne
  <1>2. CASE ~Outside(u) /\ imode
    <2>1. t = InsCh(u, c) /\ Yanking(s, u, n)
      BY <1>2 DEF YankOne
    <2> QED BY <1>2, <2>1, YankingInsCh
  <1>3. CASE ~Outside(u) /\ ~imode
    <2>1. t = VPutc(u, c, FALSE) /\ Yanking(s, u, n)
      BY <1>3 DEF YankOne
    <2>2. /\ Sound(u) /\ u.vw = s.vw /\ u.vis = s.vis /\ u.vx < u.vw
          /\ Fresh(s) => Mirror(u)
      BY <1>3, <2>1 DEF Yanking
    <2>3. Carries(u, t) /\ Ended(t, FALSE)
      BY <2>1, <2>2, PutDownFacts
    <2> QED BY <1>3, <2>2, <2>3 DEF Yanking, Carries, Keeps, Ended
  <1> QED BY <1>1, <1>2, <1>3

LEMMA YankSteps ==
    ASSUME NEW s, NEW text \in Seq(Char)
    PROVE  \E f : /\ Yank(s, text) = f[Len(text)] /\ f[0] = s
                  /\ \A n \in 0 .. Len(text) - 1 :
                        f[n + 1] = YankOne(f[n], text[n + 1])
  <1> DEFINE Is(f, k) == f = [n \in 0 .. k |->
                                 IF n = 0 THEN s ELSE YankOne(f[n - 1], text[n])]
             S == {k \in Nat : \E f : Is(f, k)}
             num == Len(text)
  <1>0. num \in Nat
    OBVIOUS
  <1>1. 0 \in S
    <2>1. Is([n \in 0 .. 0 |-> s], 0)
      OBVIOUS
    <2> QED BY <2>1
  <1>2. ASSUME NEW k \in 0 .. num - 1, k \in S PROVE k + 1 \in S
    <2>1. PICK f : Is(f, k)
      BY <1>2
    <2> DEFINE g == [n \in 0 .. k + 1 |-> IF n <= k THEN f[n]
                                          ELSE YankOne(f[k], text[k + 1])]
    <2>2. ASSUME NEW n \in 0 .. k + 1
          PROVE  g[n] = IF n = 0 THEN s ELSE YankOne(g[n - 1], text[n])
      <3>1. CASE n = 0
        BY <2>1, <3>1
      <3>2. CASE n # 0 /\ n <= k
        <4>1. n \in 0 .. k /\ n - 1 \in 0 .. k /\ n - 1 \in 0 .. k + 1
          BY <3>2
        <4> QED BY <2>1, <3>2, <4>1
      <3>3. CASE n = k + 1
        BY <3>3
      <3> QED BY <3>1, <3>2, <3>3
    <2>3. Is(g, k + 1)
      <3>1. g = [n \in 0 .. k + 1 |-> g[n]]
        OBVIOUS
      <3> HIDE DEF g
      <3>2. [n \in 0 .. k + 1 |-> g[n]] =
            [n \in 0 .. k + 1 |-> IF n = 0 THEN s ELSE YankOne(g[n - 1], text[n])]
        BY <2>2
      <3> QED BY <3>1, <3>2
    <2>4. k + 1 \in Nat
      OBVIOUS
    <2> HIDE DEF g, Is
    <2> QED BY <2>3, <2>4
  <1>3. num \in S
    <2> HIDE DEF S, num
    <2>1. \A n \in 0 .. num : n \in S
      BY <1>0, <1>1, <1>2, CountingUp
    <2> QED BY <1>0, <2>1
  <1> DEFINE f == CHOOSE f : f = [n \in 0 .. num |->
                                    IF n = 0 THEN s ELSE YankOne(f[n - 1], text[n])]
  <1>4. Is(f, num)
    BY <1>3
  <1>5. Yank(s, text) = f[num]
    BY Zenon DEF Yank
  <1> HIDE DEF f, num
  <1>6. f[0] = s
    BY <1>0, <1>4
  <1>7. ASSUME NEW n \in 0 .. num - 1 PROVE f[n + 1] = YankOne(f[n], text[n + 1])
    <2>1. n + 1 \in 0 .. num /\ n + 1 # 0 /\ (n + 1) - 1 = n
      BY <1>0
    <2> QED BY <1>4, <2>1
  <1> QED BY <1>5, <1>6, <1>7 DEF num

LEMMA YankFacts ==
    ASSUME NEW s, Sound(s), s.vx < s.vw, NEW text \in Seq(Char),
           imode \in BOOLEAN, NEW t, t = Yank(s, text)
    PROVE  Outside(t) \/ Yanking(s, t, Len(text))
  <1> DEFINE num == Len(text)
  <1>0. num \in Nat /\ \A n \in 0 .. num - 1 : text[n + 1] \in Char
    OBVIOUS
  <1>1. PICK f : /\ t = f[num] /\ f[0] = s
                 /\ \A n \in 0 .. num - 1 : f[n + 1] = YankOne(f[n], text[n + 1])
    BY YankSteps
  <1> HIDE DEF num
  <1> DEFINE S == {n \in Nat : Outside(f[n]) \/ Yanking(s, f[n], n)}
  <1>2. 0 \in S
    <2>1. Fresh(s) => Mirror(s) /\ CleanBelow(s)
      BY FreshMirror DEF Fresh, CleanBelow
    <2> QED BY <1>1, <2>1 DEF Yanking
  <1>3. ASSUME NEW n \in 0 .. num - 1, n \in S PROVE n + 1 \in S
    <2>1. n \in Nat /\ n + 1 \in Nat /\ text[n + 1] \in Char
      BY <1>0
    <2>2. Outside(f[n]) \/ Yanking(s, f[n], n)
      BY <1>3
    <2>3. Outside(f[n + 1]) \/ Yanking(s, f[n + 1], n + 1)
      BY <1>1, <2>1, <2>2, YankingNext
    <2> QED BY <2>1, <2>3
  <1>4. num \in S
    <2> HIDE DEF S
    <2>1. \A n \in 0 .. num : n \in S
      BY <1>0, <1>2, <1>3, CountingUp
    <2> QED BY <1>0, <2>1
  <1> QED BY <1>1, <1>4 DEF num

-----------------------------------------------------------------------------
(* Every key leaves its changes shown.                                     *)

(* A screen to edit on: shown, with the cursor in it.                      *)
Ready(s) == Shown(s) /\ s.vx < s.vw /\ s.vis = TRUE

LEMMA ReadyAgain ==
    ASSUME NEW s, Ready(s), NEW t, Carries(s, t), Fresh(t), Ended(t, TRUE)
    PROVE  Ready(t)
  BY DEF Ready, Shown, Carries, Keeps

(* What a key has marked is drawn, and the cursor is back in its place.    *)
LEMMA ReadyFlushed ==
    ASSUME NEW t, Sound(t), Mirror(t), t.vx < t.vw, t.vis = TRUE,
           t.xy = <<t.vx, t.vy>>
    PROVE  Ready(Flush(t))
  <1>1. /\ Carries(t, Flush(t)) /\ Fresh(Flush(t))
        /\ Flush(t).vx = t.vx /\ Flush(t).vy = t.vy /\ Flush(t).xy = t.xy
        /\ Flush(t).gx = t.vx /\ Flush(t).gy = t.vy
    BY FlushFacts
  <1> QED BY <1>1 DEF Ready, Shown, Carries, Keeps, Ended

LEMMA ReadyErased ==
    ASSUME NEW s, Ready(s), NEW t, Carries(s, t), Fresh(t),
           t.vx = s.vx, t.vy = s.vy, t.xy = s.xy, t.gx = s.vx, t.gy = s.vy
    PROVE  Ready(t)
  BY ReadyAgain DEF Ready, Shown, Ended

LEMMA ReadyKeys ==
    ASSUME NEW s, Ready(s)
    PROVE  /\ Ready(Kill(s)) /\ Ready(Delete(s)) /\ Ready(Backspace(s))
           /\ Ready(ToTop(s)) /\ Ready(ToEnd(s))
           /\ Ready(VUp(s, TRUE)) /\ Ready(VDown(s, TRUE))
           /\ Ready(VLeft(s, TRUE)) /\ Ready(VRight(s, TRUE))
           /\ Ready(VCrlf(s, TRUE)) /\ Ready(Clear(s)) /\ Ready(Visible(s))
           /\ \A c \in Char : Ready(VPutc(s, c, TRUE))
  <1>1. Sound(s) /\ Fresh(s) /\ Mirror(s) /\ Ended(s, TRUE) /\ s \in Screen
    BY FreshMirror DEF Ready, Shown, Sound
  <1>2. Ready(Kill(s))
    BY <1>1, KillFacts, ReadyErased
  <1>3. Ready(Delete(s))
    BY <1>1, DeleteFacts, ReadyErased
  <1>4. Ready(Backspace(s))
    BY <1>1, BackspaceFacts, ReadyAgain
  <1>5. Ready(ToTop(s)) /\ Ready(ToEnd(s))
    BY <1>1, ToTopFacts, ToEndFacts, ReadyAgain
  <1>6. Ready(VUp(s, TRUE)) /\ Ready(VDown(s, TRUE))
    BY <1>1, VUpFacts, VDownFacts, ReadyAgain
  <1>7. Ready(VLeft(s, TRUE)) /\ Ready(VRight(s, TRUE))
    BY <1>1, VLeftFacts, VRightFacts, ReadyAgain
  <1>8. Ready(VCrlf(s, TRUE))
    BY <1>1, VCrlfFacts, ReadyAgain
  <1>9. ASSUME NEW c \in Char PROVE Ready(VPutc(s, c, TRUE))
    BY <1>1, VPutcFacts, ReadyAgain
  <1>10. Ready(Clear(s))
    <2>1. s.vw \in Nat /\ s.vw > 0 /\ s.vis = TRUE
      BY <1>1, SoundFacts DEF Ready
    <2> QED BY <1>1, <2>1, ClearFacts DEF Ready, Shown, Ended
  <1>11. Ready(Visible(s))
    BY <1>1 DEF Visible, Ready
  <1> QED
    BY <1>2, <1>3, <1>4, <1>5, <1>6, <1>7, <1>8, <1>9, <1>10, <1>11

LEMMA ReadyInit ==
    Ready(InitScreen)
  BY InitScreenFacts, SizeAssumption DEF Ready, Shown, Ended

LEMMA ReadyPutch ==
    ASSUME NEW s, Ready(s), NEW c \in Code
    PROVE  Ready(Putch(s, c, TRUE))
  <1>1. Sound(s) /\ Fresh(s) /\ Mirror(s)
    BY FreshMirror DEF Ready, Shown
  <1> QED BY <1>1, PutchFacts, ReadyAgain

LEMMA ReadyTab ==
    ASSUME NEW s, Ready(s)
    PROVE  Outside(KeyTab(s)) \/ Ready(KeyTab(s))
  <1> DEFINE n == TabWidth(s)
             t == Insert(s, n)
             u == [t EXCEPT !.vx = t.vx + n]
  <1>1. Sound(s) /\ Fresh(s) /\ s.vx \in Nat /\ s.vw \in Nat /\ s.vw <= MaxW
        /\ s.vis = TRUE /\ MaxW \in Nat
    BY SoundFacts, SizeFacts DEF Ready, Shown
  <1>2. n \in Nat /\ n >= 1
    <2>1. TabLen \in Nat \ {0}
      BY TabAssumption
    <2>2. s.vx % TabLen \in 0 .. TabLen - 1
      BY <1>1, <2>1, DivFacts
    <2> QED BY <2>1, <2>2 DEF TabWidth
  <1> HIDE DEF n
  <1>3. CASE s.vx + n >= s.vw
    BY <1>3 DEF KeyTab, n
  <1>4. CASE ~(s.vx + n >= s.vw)
    <2>1. s.vx + 1 < s.vw /\ n <= s.vw /\ s.vx + n < s.vw
      BY <1>1, <1>2, <1>4
    <2>2. Outside(t) \/ Inserting(s, t, n)
      BY <1>1, <1>2, <2>1, InsertFacts
    <2>3. KeyTab(s) = IF Outside(t) THEN t ELSE XySync(Flush(u))
      BY <1>4 DEF KeyTab, n
    <2> HIDE DEF t
    <2>4. CASE Outside(t)
      BY <2>3, <2>4
    <2>5. CASE ~Outside(t)
      <3>1. /\ Sound(t) /\ Mirror(t) /\ t.vw = s.vw /\ t.vis = TRUE
            /\ t.vx = s.vx
        BY <1>1, <2>1, <2>2, <2>5 DEF Inserting
      <3>2. t \in Screen /\ t.vx + n \in Cols /\ t.vx + n < MaxW
        BY <1>1, <1>2, <2>1, <3>1 DEF Sound, Cols
      <3>3. /\ u \in Screen /\ SameTerminal(t, u) /\ u.vx = t.vx + n
            /\ u.vw = t.vw /\ u.vis = t.vis /\ u.chr = t.chr
            /\ u.dirty = t.dirty /\ u.ldirty = t.ldirty
        BY Zenon, <3>2 DEF Screen, SameTerminal
      <3> HIDE DEF u
      <3>4. Sound(u) /\ Mirror(u)
        BY <3>1, <3>2, <3>3, SoundMoved, SameDisplay DEF SameTerminal
      <3>5. /\ Carries(u, Flush(u)) /\ Fresh(Flush(u))
            /\ Flush(u).vx = u.vx /\ Flush(u).vy = u.vy
            /\ Flush(u).gx = u.vx /\ Flush(u).gy = u.vy
        BY <3>4, FlushFacts
      <3> DEFINE f == Flush(u)
      <3>6. Sound(f) /\ f.vw = s.vw /\ f.vis = TRUE
        BY <3>1, <3>3, <3>5 DEF Carries, Keeps
      <3>7. f \in Screen
        BY <3>6 DEF Sound
      <3> HIDE DEF f
      <3>8. /\ Sound(XySync(f)) /\ Fresh(XySync(f))
            /\ XySync(f).vw = f.vw /\ XySync(f).vis = f.vis
            /\ XySync(f).vx = f.vx /\ XySync(f).vy = f.vy
            /\ XySync(f).xy = <<f.vx, f.vy>>
            /\ XySync(f).gx = f.gx /\ XySync(f).gy = f.gy
        BY <3>5, <3>6, <3>7, XySyncFacts, XySyncCarries DEF Carries, SameTerminal, f
      <3>9. Ready(XySync(f))
        BY <2>1, <3>1, <3>3, <3>5, <3>6, <3>8 DEF Ready, Shown, Ended, f
      <3> QED BY <2>3, <2>5, <3>9 DEF f
    <2> QED BY <2>4, <2>5
  <1> QED BY <1>3, <1>4

(* Typing and yanking.                                                     *)
LEMMA YankingStart ==
    ASSUME NEW s, Ready(s)
    PROVE  Yanking(s, s, 0) /\ Sound(s) /\ s.vx < s.vw
  <1>1. Fresh(s) => Mirror(s) /\ CleanBelow(s)
    BY FreshMirror DEF Fresh, CleanBelow
  <1> QED BY <1>1 DEF Ready, Shown, Yanking

LEMMA ReadyYanked ==
    ASSUME NEW s, Ready(s), NEW n \in Nat, NEW t, Outside(t) \/ Yanking(s, t, n)
    PROVE  /\ Outside(t) => Outside(Flushed(t))
           /\ ~Outside(t) => /\ Sound(Flushed(t)) /\ Flushed(t).vis = TRUE
                             /\ Flushed(t).vx < Flushed(t).vw
           /\ (imode => n <= s.vw) => Outside(Flushed(t)) \/ Ready(Flushed(t))
  <1>1. CASE Outside(t)
    BY <1>1 DEF Flushed
  <1>2. CASE ~Outside(t)
    <2>1. Flushed(t) = Flush(t)
      BY <1>2 DEF Flushed
    <2>2. Fresh(s) /\ s.xy = <<s.vx, s.vy>> /\ s.vis = TRUE
      BY DEF Ready, Shown, Ended
    <2>3. /\ Sound(t) /\ t.vis = TRUE /\ t.vx < t.vw /\ t.xy = <<t.vx, t.vy>>
          /\ (imode => n <= s.vw) => Mirror(t)
      BY <1>2, <2>2 DEF Yanking
    <2>4. Sound(Flush(t)) /\ Flush(t).vis = TRUE /\ Flush(t).vx < Flush(t).vw
      BY <2>3, FlushFacts DEF Carries, Keeps
    <2>5. (imode => n <= s.vw) => Ready(Flush(t))
      BY <2>3, ReadyFlushed
    <2> QED BY <1>2, <2>1, <2>4, <2>5
  <1> QED BY <1>1, <1>2

-----------------------------------------------------------------------------
(* C-y gives back what C-k has cut.  The screen u is followed while the    *)
(* characters of the group of s are put into it again, one after the       *)
(* other.                                                                  *)

(* At the cursor of u or behind it.                                        *)
From(u, r, x) == r > u.vy \/ (r = u.vy /\ x >= u.vx)

(* Up to the row e the cells of s before the cursor of u, then blanks.     *)
Holds(s, u, e) ==
    \A r \in Rows, x \in ScreenCols(s) :
       r <= e => u.chr[r][x] = IF From(u, r, x) THEN Blank ELSE s.chr[r][x]

(* The cursor is n cells behind that of s, in the group of s.              *)
Retyped(s, u, n) ==
    /\ Sound(u) /\ u.vw = s.vw /\ u.cont = s.cont
    /\ u.vy = s.vy + (s.vx + n) \div s.vw
    /\ u.vx = (s.vx + n) % s.vw
    /\ u.vy <= EndRow(s)
    /\ Holds(s, u, EndRow(s))

(* The group has got a blank row, with the cursor at its start.            *)
Regrown(s, u) ==
    LET e == EndRow(s)
    IN /\ Sound(u) /\ u.vw = s.vw
       /\ u.vy = e + 1 /\ u.vx = 0
       /\ \A r \in Rows : r < e => (r \in u.cont <=> r \in s.cont)
       /\ e \in u.cont /\ e + 1 \notin u.cont
       /\ Holds(s, u, e + 1)

LEMMA RetypedStart ==
    ASSUME NEW s, Sound(s), s.vx < s.vw, NEW u, u = Kill(s)
    PROVE  Retyped(s, u, 0)
  <1>1. /\ Carries(s, u) /\ Blanked(s, u) /\ u.cont = s.cont
        /\ u.vx = s.vx /\ u.vy = s.vy
    BY KillFacts
  <1>2. /\ s.vx \in Nat /\ s.vw \in Nat \ {0} /\ s.vy \in Nat
        /\ s.vy <= EndRow(s) /\ s \in Screen
    BY SoundFacts
  <1>3. s.vx \div s.vw = 0 /\ s.vx % s.vw = s.vx
    <2>1. s.vx \in 0 .. s.vw - 1 /\ 0 \in Nat /\ 0 * s.vw + s.vx = s.vx
      BY <1>2
    <2>2. \A w \in Nat \ {0} : s.vx \in 0 .. w - 1 =>
             (0 * w + s.vx) \div w = 0 /\ (0 * w + s.vx) % w = s.vx
      BY DivOfSum
    <2> QED BY <1>2, <2>1, <2>2
  <1>4. Holds(s, u, EndRow(s))
    <2>1. SUFFICES ASSUME NEW r \in Rows, NEW x \in ScreenCols(s), r <= EndRow(s)
                   PROVE  u.chr[r][x] = IF From(u, r, x) THEN Blank ELSE s.chr[r][x]
      BY DEF Holds
    <2>2. x \in Cols /\ x < s.vw
      BY <1>2, ColumnFacts DEF ScreenCols
    <2>3. Behind(s, r, x) <=> From(u, r, x)
      BY <1>1, <2>1, <2>2 DEF Behind, From
    <2> QED BY <1>1, <2>2, <2>3 DEF Blanked
  <1> QED BY <1>1, <1>2, <1>3, <1>4 DEF Retyped, Carries, Keeps

(* The group of u ends where that of s does.                               *)
LEMMA RetypedEnd ==
    ASSUME NEW s, Sound(s), NEW n \in Nat, NEW u, Retyped(s, u, n)
    PROVE  EndRow(u) = EndRow(s) /\ s.vy <= u.vy /\ u.vy \in Rows
           /\ u.vx \in ScreenCols(s)
  <1> DEFINE e == EndRow(s)
  <1>1. /\ s.vx \in Nat /\ s.vw \in Nat \ {0} /\ s.vy \in Nat /\ s \in Screen
        /\ u.vy \in Rows
    BY SoundFacts DEF Retyped
  <1>2. (s.vx + n) \div s.vw \in Nat /\ (s.vx + n) % s.vw \in 0 .. s.vw - 1
    <2>1. \A i \in Nat, w \in Nat \ {0} : i \div w \in Nat /\ i % w \in 0 .. w - 1
      BY DivFacts
    <2>2. s.vx + n \in Nat
      BY <1>1
    <2> QED BY <1>1, <2>1, <2>2
  <1>3. s.vy <= u.vy /\ u.vx \in ScreenCols(s) /\ u.vy <= e
    BY <1>1, <1>2 DEF Retyped, ScreenCols
  <1>4. Ends(s.cont, s.vy, e)
    BY <1>1, EndRowFacts
  <1> HIDE DEF e
  <1>5. Ends(u.cont, u.vy, e)
    BY <1>1, <1>3, <1>4, SizeFacts DEF Ends, Rows, Retyped
  <1> QED BY <1>1, <1>3, <1>5, EndIs DEF EndRow, e

(* Making room moves nothing but blanks.                                   *)
LEMMA RetypedPushed ==
    ASSUME NEW s, Sound(s), NEW n \in Nat, NEW u, Retyped(s, u, n),
           NEW r \in Rows, NEW x \in ScreenCols(s), r <= EndRow(s)
    PROVE  PushedRight(u)[r][x] = u.chr[r][x]
  <1>1. /\ EndRow(u) = EndRow(s) /\ u.vy \in Rows /\ u.vx \in ScreenCols(s)
        /\ u.vw = s.vw /\ Holds(s, u, EndRow(s)) /\ s \in Screen
    BY RetypedEnd, SoundFacts DEF Retyped
  <1>2. x \in Cols /\ s.vw \in Nat /\ s.vw - 1 \in ScreenCols(s)
    BY <1>1, ColumnFacts, SoundFacts
  <1>3. PushedRight(u)[r][x] =
          IF ~Behind(u, r, x) THEN u.chr[r][x]
          ELSE IF r = u.vy /\ x = u.vx THEN Blank
          ELSE IF x > 0 THEN u.chr[r][x - 1]
          ELSE u.chr[r - 1][u.vw - 1]
    BY <1>2 DEF PushedRight
  <1>4. Behind(u, r, x) => u.chr[r][x] = Blank
    BY <1>1 DEF Behind, Holds, From
  <1>5. CASE Behind(u, r, x) /\ ~(r = u.vy /\ x = u.vx) /\ x > 0
    <2>1. x - 1 \in ScreenCols(s) /\ From(u, r, x - 1)
      BY <1>1, <1>2, <1>5 DEF Behind, From, ScreenCols
    <2> QED BY <1>1, <1>3, <1>4, <1>5, <2>1 DEF Holds
  <1>6. CASE Behind(u, r, x) /\ ~(r = u.vy /\ x = u.vx) /\ ~(x > 0)
    <2>1. r > u.vy
      BY <1>1, <1>2, <1>6 DEF Behind, ScreenCols
    <2>2. r - 1 \in Rows /\ r - 1 <= EndRow(s) /\ r - 1 >= u.vy
      <3>1. r \in Nat /\ r < VH /\ VH \in Nat /\ u.vy \in Nat /\ EndRow(s) \in Nat
        BY <1>1, RowIs, SoundFacts
      <3>2. r - 1 \in Nat /\ r - 1 < VH /\ r - 1 <= EndRow(s) /\ r - 1 >= u.vy
        BY <2>1, <3>1
      <3> QED BY <3>2, RowIs
    <2>3. From(u, r - 1, s.vw - 1)
      BY <1>1, <1>2, <2>2, SizeFacts DEF From, ScreenCols, Rows
    <2> QED BY <1>1, <1>2, <1>3, <1>4, <1>6, <2>2, <2>3 DEF Holds
  <1> QED BY <1>3, <1>4, <1>5, <1>6

(* One cell on.                                                            *)
LEMMA NextCell ==
    ASSUME NEW w \in Nat \ {0}, NEW i \in Nat
    PROVE  /\ (i % w) + 1 < w =>
                 (i + 1) \div w = i \div w /\ (i + 1) % w = (i % w) + 1
           /\ ~((i % w) + 1 < w) =>
                 (i + 1) \div w = (i \div w) + 1 /\ (i + 1) % w = 0
  <1> DEFINE q == i \div w
             z == i % w
  <1>1. i = q * w + z /\ q \in Nat /\ z \in 0 .. w - 1
    BY DivFacts
  <1> HIDE DEF q, z
  <1>2. CASE z + 1 < w
    <2>1. i + 1 = q * w + (z + 1) /\ z + 1 \in 0 .. w - 1
      BY <1>1, <1>2
    <2> DEFINE y == z + 1
    <2>2. y \in 0 .. w - 1 /\ y = z + 1
      BY <2>1
    <2> HIDE DEF y
    <2>3. (q * w + y) \div w = q /\ (q * w + y) % w = y
      BY <1>1, <2>2, DivOfSum
    <2> QED BY <1>2, <2>1, <2>2, <2>3 DEF q, z
  <1>3. CASE ~(z + 1 < w)
    <2>1. i + 1 = (q + 1) * w + 0 /\ 0 \in 0 .. w - 1 /\ q + 1 \in Nat
      BY <1>1, <1>3
    <2>2. ((q + 1) * w + 0) \div w = q + 1 /\ ((q + 1) * w + 0) % w = 0
      BY <2>1, DivOfSum
    <2> QED BY <1>3, <2>1, <2>2 DEF q, z
  <1> QED BY <1>2, <1>3 DEF q, z

(* The cells behind the next one.                                          *)
LEMMA BehindNext ==
    ASSUME NEW w \in Nat, NEW y \in Nat, NEW x \in 0 .. w - 1,
           NEW yn, NEW xn,
           x + 1 < w => xn = x + 1 /\ yn = y,
           ~(x + 1 < w) => xn = 0 /\ yn = y + 1,
           NEW r \in Nat, NEW z \in 0 .. w - 1
    PROVE  r > yn \/ (r = yn /\ z >= xn) <=>
           (r > y \/ (r = y /\ z >= x)) /\ ~(r = y /\ z = x)
  <1>1. CASE x + 1 < w
    BY <1>1
  <1>2. CASE ~(x + 1 < w)
    <2>1. x = w - 1
      BY <1>2
    <2> QED BY <1>2, <2>1
  <1> QED BY <1>1, <1>2

(* A character that is not the last of the group.                          *)
LEMMA RetypedNext ==
    ASSUME NEW s, Sound(s), EndRow(s) + 1 < VH, NEW n \in Nat,
           NEW u, Retyped(s, u, n), ~AtEnd(u),
           NEW c \in Char, c = s.chr[u.vy][u.vx],
           NEW t, t = InsCh(u, c)
    PROVE  Retyped(s, t, n + 1)
  <1> DEFINE e == EndRow(s)
             i == InsertOne(u)
  <1>1. /\ EndRow(u) = e /\ s.vy <= u.vy /\ u.vy \in Rows
        /\ u.vx \in ScreenCols(s) /\ u.vy <= e /\ e \in Rows
        /\ Sound(u) /\ u.vw = s.vw /\ u.cont = s.cont /\ Holds(s, u, e)
    BY RetypedEnd, SoundFacts DEF Retyped
  <1>2. /\ s.vw \in Nat \ {0} /\ s.vx \in Nat /\ s.vy \in Nat /\ s \in Screen
        /\ s.vw - 1 \in ScreenCols(s) /\ \A x \in ScreenCols(s) : x \in Cols
        /\ e \in Nat /\ u.vy \in Nat /\ VH \in Nat /\ u.vx \in Nat /\ u.vx < s.vw
        /\ u.vy + 1 < VH
    <2>1. s \in Screen /\ s.vw \in Nat \ {0} /\ s.vx \in Nat /\ s.vy \in Nat
      BY SoundFacts
    <2>2. s.vw - 1 \in ScreenCols(s) /\ \A x \in ScreenCols(s) : x \in Cols
      BY <2>1, ColumnFacts
    <2>3. e \in Nat /\ u.vy \in Nat /\ VH \in Nat
      BY <1>1, SizeFacts DEF Rows
    <2>4. u.vx \in Nat /\ u.vx < s.vw
      BY <1>1, <2>1 DEF ScreenCols
    <2> QED BY <1>1, <2>1, <2>2, <2>3, <2>4
  <1>3. ~Grows(u)
    <2>1. From(u, e, s.vw - 1)
      BY <1>1, <1>2 DEF From, ScreenCols
    <2> QED BY <1>1, <1>2, <2>1 DEF Grows, Holds
  <1>4. i = Pushed(u)
    BY <1>1, <1>3, InsertCases
  <1>5. /\ Carries(u, i) /\ Stays(u, i) /\ i.chr = PushedRight(u)
    BY <1>1, <1>4, PushedFacts
  <1>6. /\ Sound(i) /\ i.vw = s.vw /\ i.vx = u.vx /\ i.vy = u.vy
        /\ i.cont = s.cont
    BY <1>1, <1>5 DEF Carries, Keeps, Stays
  <1>7. t = IF Outside(i) THEN i ELSE VPutc(i, c, FALSE)
    BY DEF InsCh
  <1> HIDE DEF i
  <1>14. t = VPutc(i, c, FALSE)
    <2>1. ~Outside(i)
      BY <1>2, <1>6 DEF Outside
    <2> QED BY <1>7, <2>1
  <1>8. Carries(i, t) /\ PutDown(i, t, c)
    BY <1>2, <1>6, <1>14, PutDownFacts
  <1>9. Sound(t) /\ t.vw = s.vw
    BY <1>6, <1>8 DEF Carries, Keeps
  <1>10. PutAt(i, t, c)
    <2>1. ~Scrolls(i)
      <3>1. i.vy + 1 < VH /\ i.vy \in Nat /\ VH \in Nat
        BY <1>2, <1>6
      <3>2. i.vy # VH - 1
        BY <3>1
      <3> QED BY <3>2 DEF Scrolls
    <2> QED BY <1>8, <2>1 DEF PutDown
  <1>11. /\ t.cont = s.cont /\ t.vy <= e
         /\ u.vx + 1 < s.vw => t.vx = u.vx + 1 /\ t.vy = u.vy
         /\ ~(u.vx + 1 < s.vw) => t.vx = 0 /\ t.vy = u.vy + 1
    <2>1. CASE u.vx + 1 < s.vw
      BY <1>1, <1>6, <1>8, <2>1 DEF PutDown
    <2>2. CASE ~(u.vx + 1 < s.vw)
      <3>1. u.vx = s.vw - 1 /\ u.vy # e
        BY <1>1, <1>2, <2>2 DEF AtEnd
      <3>2. u.vy < e /\ u.vy \in s.vy .. e - 1
        BY <1>1, <1>2, <3>1
      <3>3. u.vy \in s.cont
        BY <1>2, <3>2, EndRowFacts DEF Ends
      <3>4. t.vx = 0 /\ t.vy = u.vy + 1 /\ t.cont = s.cont \cup {u.vy}
        BY <1>2, <1>6, <1>8, <2>2 DEF PutDown
      <3>5. u.vy + 1 <= e
        BY <1>2, <3>2
      <3> QED BY <2>2, <3>3, <3>4, <3>5
    <2> QED BY <2>1, <2>2
  <1>12. /\ t.vy = s.vy + (s.vx + (n + 1)) \div s.vw
         /\ t.vx = (s.vx + (n + 1)) % s.vw
    <2> DEFINE j == s.vx + n
    <2>1. j \in Nat /\ s.vx + (n + 1) = j + 1
      BY <1>2
    <2>2. u.vy = s.vy + j \div s.vw /\ u.vx = j % s.vw
      BY DEF Retyped
    <2> HIDE DEF j
    <2>3. \A w \in Nat \ {0} :
             /\ (j % w) + 1 < w => (j + 1) \div w = j \div w /\ (j + 1) % w = (j % w) + 1
             /\ ~((j % w) + 1 < w) => (j + 1) \div w = (j \div w) + 1 /\ (j + 1) % w = 0
             /\ j \div w \in Nat
      BY <2>1, NextCell, DivFacts
    <2> DEFINE q == j \div s.vw
    <2>4. q \in Nat /\ u.vy = s.vy + q
      BY <1>2, <2>2, <2>3
    <2>5. /\ u.vx + 1 < s.vw => (j + 1) \div s.vw = q /\ (j + 1) % s.vw = u.vx + 1
          /\ ~(u.vx + 1 < s.vw) => (j + 1) \div s.vw = q + 1 /\ (j + 1) % s.vw = 0
      BY <1>2, <2>2, <2>3
    <2> HIDE DEF q
    <2>6. /\ (s.vx + (n + 1)) \div s.vw = (j + 1) \div s.vw
          /\ (s.vx + (n + 1)) % s.vw = (j + 1) % s.vw
      BY <2>1
    <2>7. /\ t.vy = s.vy + ((j + 1) \div s.vw) /\ t.vx = (j + 1) % s.vw
      <3>1. CASE u.vx + 1 < s.vw
        BY <1>11, <2>4, <2>5, <3>1
      <3>2. CASE ~(u.vx + 1 < s.vw)
        <4>1. t.vy = s.vy + (q + 1)
          <5>1. t.vy = u.vy + 1 /\ u.vy = s.vy + q /\ s.vy \in Nat /\ q \in Nat
            BY <1>2, <1>11, <2>4, <3>2
          <5> QED BY <5>1
        <4> QED BY <1>11, <2>5, <3>2, <4>1
      <3> QED BY <3>1, <3>2
    <2> QED BY <2>6, <2>7
  <1>13. Holds(s, t, e)
    <2>1. SUFFICES ASSUME NEW r \in Rows, NEW x \in ScreenCols(s), r <= e
                   PROVE  t.chr[r][x] = IF From(t, r, x) THEN Blank ELSE s.chr[r][x]
      BY DEF Holds
    <2>2. t.chr[r][x] = IF r = u.vy /\ x = u.vx THEN c ELSE u.chr[r][x]
      <3>1. x \in Cols
        BY <1>2
      <3>2. t.chr[r][x] = IF r = i.vy /\ x = i.vx THEN c ELSE i.chr[r][x]
        BY <1>10, <3>1 DEF PutAt
      <3>3. PushedRight(u)[r][x] = u.chr[r][x]
        BY <2>1, RetypedPushed
      <3>4. i.chr[r][x] = u.chr[r][x] /\ i.vy = u.vy /\ i.vx = u.vx
        BY <1>5, <1>6, <3>3
      <3> QED BY <3>2, <3>4
    <2>3. u.chr[r][x] = IF From(u, r, x) THEN Blank ELSE s.chr[r][x]
      BY <1>1, <2>1 DEF Holds
    <2>4. From(t, r, x) <=> From(u, r, x) /\ ~(r = u.vy /\ x = u.vx)
      <3>1. r \in Nat /\ x \in 0 .. s.vw - 1 /\ u.vx \in 0 .. s.vw - 1
        BY <1>1, RowIs DEF ScreenCols
      <3>2. /\ s.vw \in Nat /\ u.vy \in Nat
            /\ u.vx + 1 < s.vw => t.vx = u.vx + 1 /\ t.vy = u.vy
            /\ ~(u.vx + 1 < s.vw) => t.vx = 0 /\ t.vy = u.vy + 1
        BY <1>2, <1>11
      <3>3. r > t.vy \/ (r = t.vy /\ x >= t.vx) <=>
            (r > u.vy \/ (r = u.vy /\ x >= u.vx)) /\ ~(r = u.vy /\ x = u.vx)
        <4>1. \/ u.vx + 1 < s.vw /\ t.vx = u.vx + 1 /\ t.vy = u.vy
              \/ ~(u.vx + 1 < s.vw) /\ t.vx = 0 /\ t.vy = u.vy + 1
          BY <3>2
        <4>2. /\ s.vw \in Nat /\ u.vy \in Nat /\ r \in Nat
              /\ x \in 0 .. s.vw - 1 /\ u.vx \in 0 .. s.vw - 1
          BY <3>1, <3>2
        <4> QED BY <4>1, <4>2, BehindNext, SMTT(40)
      <3> QED BY <3>3 DEF From
    <2> QED BY <2>2, <2>3, <2>4
  <1> QED BY <1>9, <1>11, <1>12, <1>13 DEF Retyped

(* The last one: the group gets a row.                                     *)
LEMMA RetypedLast ==
    ASSUME NEW s, Sound(s), EndRow(s) + 1 < VH, NEW n \in Nat,
           NEW u, Retyped(s, u, n), AtEnd(u),
           NEW c \in Char, c = s.chr[u.vy][u.vx],
           NEW t, t = InsCh(u, c)
    PROVE  Regrown(s, t)
  <1> DEFINE e == EndRow(s)
             o == Opened(u)
             l == VInsLine(o, e + 1)
             i == InsertOne(u)
  <1>1. /\ EndRow(u) = e /\ u.vy = e /\ u.vx = s.vw - 1 /\ e \in Rows
        /\ Sound(u) /\ u.vw = s.vw /\ u.cont = s.cont /\ Holds(s, u, e)
    BY RetypedEnd, SoundFacts DEF Retyped, AtEnd
  <1>2. /\ s.vw \in Nat \ {0} /\ s \in Screen /\ s.cont \in SUBSET Rows
        /\ s.vw - 1 \in ScreenCols(s) /\ \A x \in ScreenCols(s) : x \in Cols
        /\ e \in Nat /\ VH \in Nat /\ e + 1 \in Rows /\ ScreenCols(u) = ScreenCols(s)
    <2>1. s \in Screen /\ s.vw \in Nat \ {0} /\ s.cont \in SUBSET Rows
      BY SoundFacts
    <2>2. s.vw - 1 \in ScreenCols(s) /\ \A x \in ScreenCols(s) : x \in Cols
      BY <2>1, ColumnFacts
    <2>3. e \in Nat /\ VH \in Nat /\ e + 1 \in Rows
      BY <1>1, SizeFacts DEF Rows
    <2> QED BY <1>1, <2>1, <2>2, <2>3 DEF ScreenCols
  <1>3. e \notin s.cont
    BY <1>2, EndRowFacts DEF Ends
  <1>4. Grows(u) /\ u.chr[e][s.vw - 1] = Blank
    <2>1. From(u, e, s.vw - 1)
      BY <1>1, <1>2 DEF From, ScreenCols
    <2> QED BY <1>1, <1>2, <1>3, <2>1 DEF Grows, Holds
  <1>5. i = l
    <2>1. i = Carried(l, e + 1, u.chr[e][s.vw - 1])
      BY <1>1, <1>4, InsertCases
    <2> QED BY <1>4, <2>1 DEF Carried
  <1>6. /\ Sound(o) /\ o.vw = s.vw /\ o.vx = s.vw - 1 /\ o.vy = e
        /\ o.cont = s.cont \cup {e} /\ o.chr = PushedRight(u)
    BY <1>1, OpenedFacts
  <1>7. ScreenCols(o) = ScreenCols(s)
    BY <1>6 DEF ScreenCols
  <1> HIDE DEF o
  <1>8. /\ Sound(l) /\ l.vw = s.vw /\ l.vx = s.vw - 1 /\ l.vy = e
        /\ l.cont = {r \in Rows : (r < e + 1 /\ r \in o.cont) \/
                                  (r > e + 1 /\ r - 1 \in o.cont)}
        /\ \A x \in ScreenCols(s) : l.chr[e + 1][x] = Blank
        /\ \A r \in Rows : r < e + 1 => l.chr[r] = o.chr[r]
    BY <1>2, <1>6, <1>7, InsLineFacts
  <1>9. t = IF Outside(l) THEN l ELSE VPutc(l, c, FALSE)
    BY <1>5 DEF InsCh
  <1> HIDE DEF l
  <1>15. t = VPutc(l, c, FALSE)
    <2>1. ~Outside(l)
      BY <1>2, <1>8 DEF Outside
    <2> QED BY <1>9, <2>1
  <1>10. Carries(l, t) /\ PutDown(l, t, c)
    <2>1. Sound(l) /\ l.vx < l.vw
      BY <1>2, <1>8
    <2> QED BY <1>15, <2>1, PutDownFacts
  <1>11. Sound(t) /\ t.vw = s.vw
    BY <1>8, <1>10 DEF Carries, Keeps
  <1>12. t.vx = 0 /\ t.vy = e + 1 /\ t.cont = l.cont \cup {e} /\ PutAt(l, t, c)
    <2>1. /\ ~(l.vx + 1 < l.vw) /\ l.vy + 1 < VH /\ l.vy # VH - 1
      BY <1>2, <1>8
    <2> QED BY <1>8, <1>10, <2>1 DEF PutDown, Scrolls
  <1>13. /\ \A r \in Rows : r < e => (r \in t.cont <=> r \in s.cont)
         /\ e \in t.cont /\ e + 1 \notin t.cont
    <2>1. ASSUME NEW r \in Rows PROVE r \in t.cont <=> r = e \/ r \in l.cont
      BY <1>12
    <2>2. ASSUME NEW r \in Rows
          PROVE  r \in l.cont <=> (r < e + 1 /\ (r \in s.cont \/ r = e)) \/
                                  (r > e + 1 /\ r - 1 \in o.cont)
      BY <1>6, <1>8
    <2> QED BY <1>1, <1>2, <2>1, <2>2, SizeFacts DEF Rows
  <1>14. Holds(s, t, e + 1)
    <2>1. SUFFICES ASSUME NEW r \in Rows, NEW x \in ScreenCols(s), r <= e + 1
                   PROVE  t.chr[r][x] = IF From(t, r, x) THEN Blank ELSE s.chr[r][x]
      BY DEF Holds
    <2>2. t.chr[r][x] = IF r = e /\ x = s.vw - 1 THEN c ELSE l.chr[r][x]
      <3>1. x \in Cols
        BY <1>2
      <3>2. t.chr[r][x] = IF r = l.vy /\ x = l.vx THEN c ELSE l.chr[r][x]
        BY <1>12, <3>1 DEF PutAt
      <3>3. l.vy = e /\ l.vx = s.vw - 1
        BY <1>8
      <3> QED BY <3>2, <3>3
    <2>3. From(t, r, x) <=> r = e + 1
      <3>1. r \in Nat /\ x >= 0
        BY RowIs DEF ScreenCols
      <3>2. e \in Nat
        BY <1>2
      <3>3. t.vx = 0 /\ t.vy = e + 1
        BY <1>12
      <3> QED BY <2>1, <3>1, <3>2, <3>3 DEF From
    <2>4. CASE r = e + 1
      <3>1. l.chr[e + 1][x] = Blank /\ ~(r = e)
        BY <1>2, <1>8, <2>4
      <3> QED BY <2>2, <2>3, <2>4, <3>1
    <2>5. CASE r # e + 1
      <3>1. r < e + 1 /\ r <= e
        BY <1>2, <2>1, <2>5, SizeFacts DEF Rows
      <3>2. l.chr[r][x] = u.chr[r][x]
        BY <1>6, <1>8, <3>1, RetypedPushed
      <3>3. u.chr[r][x] = IF From(u, r, x) THEN Blank ELSE s.chr[r][x]
        BY <1>1, <3>1 DEF Holds
      <3>4. From(u, r, x) => r = e /\ x = s.vw - 1
        BY <1>1, <1>2, <3>1, SizeFacts DEF From, ScreenCols, Rows
      <3> QED BY <1>1, <2>2, <2>3, <2>5, <3>2, <3>3, <3>4
    <2> QED BY <2>4, <2>5
  <1> QED BY <1>11, <1>12, <1>13, <1>14 DEF Regrown

(* The text C-k cuts: the cells from the cursor on, but for the blanks at  *)
(* the end.                                                                *)
LEMMA KilledTextFacts ==
    ASSUME NEW s, Sound(s), s.vx < s.vw, NEW k, k = KilledText(s)
    PROVE  /\ k \in Seq(Char) /\ Len(k) \in Nat
           /\ s.vx + Len(k) <= (EndRow(s) - s.vy + 1) * s.vw
           /\ \A n \in 0 .. Len(k) - 1 :
                 k[n + 1] = s.chr[s.vy + (s.vx + n) \div s.vw][(s.vx + n) % s.vw]
           /\ \A r \in s.vy .. EndRow(s), x \in ScreenCols(s) :
                 (r - s.vy) * s.vw + x >= s.vx + Len(k) => s.chr[r][x] = Blank
  <1> DEFINE e == EndRow(s)
             n == (e - s.vy + 1) * s.vw
             t == TextOf(s, s.vy, e)
             u == SubSeq(t, s.vx + 1, n)
  <1>1. s.vx \in Nat /\ e \in Rows /\ s.vy \in Rows /\ s.vy <= e
        /\ s.vw \in Nat /\ e \in Nat /\ s.vy \in Nat
    BY SoundFacts, SizeFacts DEF Rows
  <1>2. /\ t \in Seq(Char) /\ Len(t) = n /\ n \in Nat
        /\ \A i \in 1 .. n :
              t[i] = s.chr[s.vy + (i - 1) \div s.vw][(i - 1) % s.vw]
        /\ \A r \in s.vy .. e, x \in ScreenCols(s) :
              /\ (r - s.vy) * s.vw + x + 1 \in 1 .. n
              /\ t[(r - s.vy) * s.vw + x + 1] = s.chr[r][x]
    BY <1>1, TextFacts
  <1>3. s.vx < n
    <2>1. e - s.vy + 1 \in Nat /\ 1 <= e - s.vy + 1
      BY <1>1
    <2>2. 1 * s.vw <= n
      BY <1>1, <2>1, ProductsGrow
    <2> QED BY <1>1, <1>2, <2>2
  <1>4. k = Trimmed(u)
    BY DEF KilledText
  <1> HIDE DEF t, n, e
  <1>5. /\ u \in Seq(Char) /\ Len(u) = n - s.vx
        /\ \A i \in 1 .. n - s.vx : u[i] = t[s.vx + i]
    <2>1. \A i \in s.vx + 1 .. n : t[i] \in Char
      BY <1>1, <1>2
    <2>2. /\ u \in Seq(Char)
          /\ Len(u) = IF s.vx + 1 <= n THEN n - (s.vx + 1) + 1 ELSE 0
          /\ \A i \in 1 .. n - (s.vx + 1) + 1 : u[i] = t[(s.vx + 1) + i - 1]
      <3>1. s.vx + 1 \in Int /\ n \in Int
        BY <1>1, <1>2
      <3> QED BY <2>1, <3>1, SubSeqProperties
    <2>3. /\ s.vx + 1 <= n /\ n - (s.vx + 1) + 1 = n - s.vx
          /\ \A i \in 1 .. n - s.vx : (s.vx + 1) + i - 1 = s.vx + i
      BY <1>1, <1>2, <1>3
    <2> QED BY <2>2, <2>3
  <1> HIDE DEF u
  <1>6. /\ k \in Seq(Char) /\ Len(k) \in 0 .. n - s.vx
        /\ \A i \in 1 .. Len(k) : k[i] = u[i]
        /\ \A i \in Len(k) + 1 .. n - s.vx : u[i] = Blank
    BY <1>4, <1>5, TrimmedFacts
  <1> DEFINE m == Len(k)
  <1> HIDE DEF m
  <1>7. m \in Nat /\ s.vx + m <= n
    BY <1>1, <1>2, <1>3, <1>6 DEF m
  <1>8. ASSUME NEW j \in 0 .. m - 1
        PROVE  k[j + 1] = s.chr[s.vy + (s.vx + j) \div s.vw][(s.vx + j) % s.vw]
    <2>1. /\ j + 1 \in 1 .. m /\ j + 1 \in 1 .. n - s.vx
          /\ s.vx + (j + 1) \in 1 .. n /\ s.vx + (j + 1) - 1 = s.vx + j
      BY <1>1, <1>2, <1>7
    <2>2. k[j + 1] = t[s.vx + (j + 1)]
      <3>1. k[j + 1] = u[j + 1]
        BY <1>6, <2>1 DEF m
      <3> QED BY <1>5, <2>1, <3>1
    <2> DEFINE i == s.vx + (j + 1)
    <2>3. i \in 1 .. n /\ i - 1 = s.vx + j
      BY <1>1, <1>7, <2>1
    <2> HIDE DEF i
    <2>4. t[i] = s.chr[s.vy + (i - 1) \div s.vw][(i - 1) % s.vw]
      BY <1>2, <2>3
    <2> QED BY <2>2, <2>3, <2>4 DEF i
  <1>9. ASSUME NEW r \in s.vy .. e, NEW x \in ScreenCols(s),
               (r - s.vy) * s.vw + x >= s.vx + m
        PROVE  s.chr[r][x] = Blank
    <2> DEFINE p == (r - s.vy) * s.vw + x
    <2>1. p + 1 \in 1 .. n /\ t[p + 1] = s.chr[r][x] /\ p >= s.vx + m
      BY <1>2, <1>9
    <2>2. p \in Int
      <3>1. \A d \in Int, w \in Int, y \in Int : d * w + y \in Int
        OBVIOUS
      <3> QED BY <1>1, <3>1 DEF ScreenCols
    <2> HIDE DEF p
    <2>3. p + 1 - s.vx \in m + 1 .. n - s.vx /\ p + 1 - s.vx \in 1 .. n - s.vx
          /\ s.vx + (p + 1 - s.vx) = p + 1
      <3>1. p + 1 - s.vx >= m + 1 /\ p + 1 - s.vx <= n - s.vx
            /\ p + 1 - s.vx \in Int /\ s.vx + (p + 1 - s.vx) = p + 1
        <4>1. p + 1 <= n /\ n \in Nat /\ s.vx \in Nat /\ m \in Nat
          BY <1>1, <1>2, <1>7, <2>1
        <4> QED BY <2>1, <2>2, <4>1
      <3> QED BY <1>1, <1>2, <1>7, <3>1
    <2>4. u[p + 1 - s.vx] = Blank
      BY <1>6, <2>3 DEF m
    <2> QED BY <1>5, <2>1, <2>3, <2>4
  <1> QED BY <1>6, <1>7, <1>8, <1>9 DEF m, n, e

(* The last cell of a row.                                                 *)
LEMMA LastCell ==
    ASSUME NEW w \in Nat \ {0}, NEW j \in Nat, NEW q \in Nat,
           j \div w = q, j % w = w - 1
    PROVE  j + 1 = (q + 1) * w
  <1>1. j = q * w + (w - 1)
    BY DivFacts
  <1>2. (q + 1) * w = q * w + w /\ q * w \in Nat
    OBVIOUS
  <1> QED BY <1>1, <1>2

(* Every character of the text goes back to the cell it was cut from.      *)
LEMMA RetypedAll ==
    ASSUME NEW s, Sound(s), s.vx < s.vw, EndRow(s) + 1 < VH, imode,
           NEW k, k = KilledText(s), NEW t, t = Yank(Kill(s), k)
    PROVE  Retyped(s, t, Len(k)) \/ Regrown(s, t)
  <1> DEFINE m == Len(k)
             e == EndRow(s)
  <1>1. /\ k \in Seq(Char) /\ m \in Nat /\ s.vx + m <= (e - s.vy + 1) * s.vw
        /\ \A n \in 0 .. m - 1 :
              k[n + 1] = s.chr[s.vy + (s.vx + n) \div s.vw][(s.vx + n) % s.vw]
    BY KilledTextFacts
  <1>2. PICK f : /\ t = f[m] /\ f[0] = Kill(s)
                 /\ \A n \in 0 .. m - 1 : f[n + 1] = YankOne(f[n], k[n + 1])
    BY <1>1, YankSteps
  <1>0. \A n \in 0 .. m - 1 : k[n + 1] \in Char
    BY <1>1
  <1> HIDE DEF m
  <1> DEFINE S == {n \in Nat : \/ Retyped(s, f[n], n)
                               \/ n = m /\ Regrown(s, f[n])}
  <1>3. 0 \in S
    BY <1>2, RetypedStart
  <1>4. ASSUME NEW n \in 0 .. m - 1, n \in S PROVE n + 1 \in S
    <2> DEFINE u == f[n]
               c == k[n + 1]
               g == f[n + 1]
    <2>1. Retyped(s, u, n) /\ n \in Nat /\ n + 1 \in Nat
      BY <1>1, <1>4
    <2>2. c = s.chr[u.vy][u.vx] /\ c \in Char
      BY <1>0, <1>1, <2>1 DEF Retyped
    <2>3. g = YankOne(u, c)
      BY <1>2
    <2> HIDE DEF u, c, g
    <2>4. g = InsCh(u, c)
      <3>1. ~Outside(u)
        BY <2>1, SoundFacts DEF Retyped, Outside
      <3> QED BY <2>3, <3>1 DEF YankOne
    <2>5. CASE ~AtEnd(u)
      <3>1. Retyped(s, g, n + 1)
        BY <2>1, <2>2, <2>4, <2>5, RetypedNext
      <3> QED BY <2>1, <3>1 DEF g
    <2>6. CASE AtEnd(u)
      <3>1. Regrown(s, g)
        BY <2>1, <2>2, <2>4, <2>6, RetypedLast
      <3>2. n + 1 = m
        <4> DEFINE j == s.vx + n
        <4>1. /\ s.vx \in Nat /\ s.vw \in Nat \ {0} /\ s.vy \in Nat /\ e \in Nat
          <5>1. /\ s.vx \in Nat /\ s.vw \in Nat /\ s.vw >= 1
                /\ s.vy \in Nat /\ e \in Rows
            BY SoundFacts
          <5> QED BY <5>1, RowIs
        <4>2. j \in Nat
          BY <2>1, <4>1
        <4>3. u.vy = s.vy + j \div s.vw /\ u.vx = j % s.vw /\ u.vw = s.vw
          BY <2>1 DEF Retyped
        <4>4. u.vy = e /\ u.vx = s.vw - 1
          BY <2>1, <2>6, <4>3, RetypedEnd DEF AtEnd
        <4> HIDE DEF j
        <4>6. j \div s.vw \in Nat
          BY <4>1, <4>2, DivFacts
        <4>7. j \div s.vw = e - s.vy /\ j % s.vw = s.vw - 1 /\ e - s.vy \in Nat
          BY <4>1, <4>3, <4>4, <4>6
        <4>8. j + 1 = (e - s.vy + 1) * s.vw
          BY <4>1, <4>2, <4>7, LastCell
        <4>9. s.vx + m <= s.vx + n + 1
          BY <1>1, <4>8 DEF j
        <4> QED BY <1>1, <1>4, <2>1, <4>1, <4>9
      <3> QED BY <2>1, <3>1, <3>2 DEF g
    <2> QED BY <2>5, <2>6
  <1> HIDE DEF S
  <1>5. m \in S
    <2>1. \A n \in 0 .. m : n \in S
      BY <1>1, <1>3, <1>4, CountingUp
    <2> QED BY <1>1, <2>1
  <1> QED BY <1>2, <1>5 DEF S, m

(* Blanks at the end of a text are not given to the program.               *)
LEMMA TrimmedPadded ==
    ASSUME NEW t \in Seq(Char), NEW u \in Seq(Char), Len(t) <= Len(u),
           \A i \in 1 .. Len(t) : u[i] = t[i],
           \A i \in Len(t) + 1 .. Len(u) : u[i] = Blank
    PROVE  Trimmed(u) = Trimmed(t)
  <1> DEFINE T == {0} \cup {i \in DOMAIN t : t[i] # Blank}
             U == {0} \cup {i \in DOMAIN u : u[i] # Blank}
             m == Max(T)
  <1>1. /\ Len(t) \in Nat /\ DOMAIN t = 1 .. Len(t)
        /\ Len(u) \in Nat /\ DOMAIN u = 1 .. Len(u)
    OBVIOUS
  <1>2. ASSUME NEW i \in 1 .. Len(u), i \notin 1 .. Len(t) PROVE u[i] = Blank
    BY <1>1, <1>2
  <1>3. U = T
    BY <1>1, <1>2
  <1>4. T \subseteq 0 .. Len(t) /\ T # {}
    BY <1>1
  <1>5. m \in 0 .. Len(t)
    BY <1>1, <1>4, MaxFacts
  <1>6. Trimmed(t) = SubSeq(t, 1, m)
    BY DEF Trimmed
  <1>7. Trimmed(u) = SubSeq(u, 1, m)
    BY <1>3 DEF Trimmed
  <1> HIDE DEF m
  <1>8. /\ SubSeq(t, 1, m) \in Seq(Char) /\ Len(SubSeq(t, 1, m)) = m
        /\ \A i \in 1 .. m : SubSeq(t, 1, m)[i] = t[i]
    <2>1. \A i \in 1 .. m : t[i] \in Char
      BY <1>1, <1>5
    <2> QED BY <1>5, <2>1, SubSeqProperties
  <1>9. /\ SubSeq(u, 1, m) \in Seq(Char) /\ Len(SubSeq(u, 1, m)) = m
        /\ \A i \in 1 .. m : SubSeq(u, 1, m)[i] = u[i]
    <2>1. \A i \in 1 .. m : u[i] \in Char
      BY <1>1, <1>5
    <2> QED BY <1>5, <2>1, SubSeqProperties
  <1>10. \A i \in 1 .. m : u[i] = t[i]
    BY <1>1, <1>5
  <1>11. SubSeq(u, 1, m) = SubSeq(t, 1, m)
    BY <1>8, <1>9, <1>10, SeqEqual
  <1> QED BY <1>6, <1>7, <1>11

(* The rows a to b are the same, and the rows below b up to d are blank.   *)
SameRows(s, u, a, b) ==
    \A r \in a .. b, x \in ScreenCols(s) : u.chr[r][x] = s.chr[r][x]
BlankRows(s, u, b, d) ==
    \A r \in b + 1 .. d, x \in ScreenCols(s) : u.chr[r][x] = Blank

(* Rows of blanks below the group do not change its text.                  *)
LEMMA SameText ==
    ASSUME NEW s, Sound(s), NEW u, Sound(u), u.vw = s.vw,
           NEW a \in Rows, NEW b \in Rows, NEW d \in Rows, a <= b, b <= d,
           SameRows(s, u, a, b), BlankRows(s, u, b, d)
    PROVE  Trimmed(TextOf(u, a, d)) = Trimmed(TextOf(s, a, b))
  <1> DEFINE w == s.vw
             p == (b - a + 1) * w
             q == (d - a + 1) * w
             t == TextOf(s, a, b)
             v == TextOf(u, a, d)
  <1>1. /\ a \in Nat /\ b \in Nat /\ d \in Nat /\ a <= d
        /\ w \in Nat \ {0}
    <2>1. a \in Nat /\ b \in Nat /\ d \in Nat
      BY RowIs
    <2>2. w \in Nat /\ w >= 1
      BY SoundFacts
    <2> QED BY <2>1, <2>2
  <1>2. /\ t \in Seq(Char) /\ Len(t) = p /\ p \in Nat
        /\ \A i \in 1 .. p : t[i] = s.chr[a + (i - 1) \div w][(i - 1) % w]
    BY TextFacts
  <1>3. /\ v \in Seq(Char) /\ Len(v) = q /\ q \in Nat
        /\ \A i \in 1 .. q : v[i] = u.chr[a + (i - 1) \div w][(i - 1) % w]
    <2>1. /\ v \in Seq(Char) /\ Len(v) = (d - a + 1) * u.vw
          /\ (d - a + 1) * u.vw \in Nat
          /\ \A i \in 1 .. (d - a + 1) * u.vw :
                v[i] = u.chr[a + (i - 1) \div u.vw][(i - 1) % u.vw]
      <3>1. a <= d
        BY <1>1
      <3> QED BY <3>1, TextFacts
    <2>2. u.vw = w
      OBVIOUS
    <2> HIDE DEF v, w
    <2> QED BY <2>1, <2>2
  <1>4. p <= q
    BY <1>1, ProductsGrow
  <1>5. ASSUME NEW i \in 1 .. q
        PROVE  /\ i <= p => v[i] = t[i]
               /\ ~(i <= p) => v[i] = Blank
    <2> DEFINE j == i - 1
               y == a + j \div w
               x == j % w
    <2>1. j \in Nat /\ j < q /\ (i <= p => j < p) /\ (~(i <= p) => j >= p)
          /\ i \in 1 .. q
      BY <1>2, <1>3
    <2>2. \A k \in Nat : j < k * w => j \div w < k
      BY <1>1, <2>1, DivFacts
    <2>3. j \div w \in Nat /\ x \in ScreenCols(s) /\ j = (j \div w) * w + x
      BY <1>1, <2>1, DivFacts DEF ScreenCols
    <2>4. v[i] = u.chr[y][x] /\ (i <= p => t[i] = s.chr[y][x])
      BY <1>2, <1>3, <2>1
    <2> DEFINE z == j \div w
    <2>5. z < d - a + 1 /\ (i <= p => z < b - a + 1)
      BY <1>1, <2>1, <2>2
    <2>6. ~(i <= p) => z >= b - a + 1
      <3>1. SUFFICES ASSUME ~(i <= p), z + 1 <= b - a + 1 PROVE FALSE
        BY <1>1, <2>3
      <3>2. (z + 1) * w <= p
        BY <1>1, <2>3, <3>1, ProductsGrow
      <3>3. x < w
        BY <1>1, <2>3 DEF ScreenCols
      <3>4. (z + 1) * w = z * w + w /\ z * w \in Nat
        BY <1>1, <2>3
      <3>5. j < z * w + w /\ j >= p
        BY <1>1, <2>1, <2>3, <3>1, <3>3, <3>4
      <3> HIDE DEF z, j, p
      <3> QED BY <1>1, <1>2, <2>1, <3>2, <3>4, <3>5
    <2>7. /\ i <= p => y \in a .. b
          /\ ~(i <= p) => y \in b + 1 .. d
      <3>1. y = a + z
        OBVIOUS
      <3> HIDE DEF z, y
      <3> QED BY <1>1, <2>3, <2>5, <2>6, <3>1 DEF z
    <2> HIDE DEF x, y
    <2> QED BY <2>3, <2>4, <2>7 DEF SameRows, BlankRows
  <1> HIDE DEF t, v, p, q
  <1>6. /\ \A i \in 1 .. Len(t) : v[i] = t[i]
        /\ \A i \in Len(t) + 1 .. Len(v) : v[i] = Blank
    BY <1>2, <1>3, <1>4, <1>5
  <1>7. Trimmed(v) = Trimmed(t)
    BY <1>2, <1>3, <1>4, <1>6, TrimmedPadded
  <1> QED BY <1>7 DEF t, v

(* The row a starts the group of row y.                                    *)
Starts(cont, y, a) ==
    /\ a \in Rows /\ a <= y
    /\ \A r \in a .. y - 1 : r \in cont
    /\ a = 0 \/ a - 1 \notin cont

LEMMA StartIs ==
    ASSUME NEW s \in Screen
    PROVE  /\ Starts(s.cont, s.vy, TopRow(s))
           /\ \A a : Starts(s.cont, s.vy, a) => TopRow(s) = a
  <1> DEFINE S == {r \in 0 .. s.vy : r = 0 \/ r - 1 \notin s.cont}
             m == Max(S)
  <1>1. s.vy \in Rows /\ s.vy \in Nat
    BY SizeAssumption DEF Screen, Rows
  <1>2. S \subseteq 0 .. s.vy /\ S # {}
    BY <1>1
  <1>3. m \in S /\ \A n \in S : n <= m
    BY <1>1, <1>2, MaxFacts
  <1>4. TopRow(s) = m
    BY DEF TopRow
  <1> HIDE DEF m
  <1>5. m \in Nat /\ m <= s.vy /\ (m = 0 \/ m - 1 \notin s.cont)
    BY <1>1, <1>3
  <1>6. ASSUME NEW r \in m .. s.vy - 1 PROVE r \in s.cont
    <2>1. SUFFICES ASSUME r \notin s.cont PROVE FALSE
      OBVIOUS
    <2>2. r + 1 \in 0 .. s.vy /\ r + 1 - 1 = r /\ ~(r + 1 <= m)
      BY <1>1, <1>5
    <2>3. r + 1 \in S
      BY <2>1, <2>2
    <2> QED BY <1>3, <2>2, <2>3
  <1>7. Starts(s.cont, s.vy, m)
    BY <1>1, <1>5, <1>6, SizeAssumption DEF Starts, Rows
  <1>8. ASSUME NEW a, Starts(s.cont, s.vy, a) PROVE m = a
    <2>1. a \in Nat /\ a <= s.vy /\ (a = 0 \/ a - 1 \notin s.cont)
          /\ \A r \in a .. s.vy - 1 : r \in s.cont
      BY <1>8, SizeAssumption DEF Starts, Rows
    <2>2. ~(m < a)
      BY <1>1, <1>5, <1>6, <2>1
    <2>3. ~(a < m)
      BY <1>1, <1>5, <2>1
    <2> QED BY <1>5, <2>1, <2>2, <2>3
  <1> QED BY <1>4, <1>7, <1>8

(* Cells in reading order.                                                 *)
LEMMA ReadingOrder ==
    ASSUME NEW w \in Nat, NEW q \in Nat, NEW z \in 0 .. w - 1,
           NEW d \in Nat, NEW x \in 0 .. w - 1, d > q \/ (d = q /\ x >= z)
    PROVE  d * w + x >= q * w + z
  <1>1. CASE d > q
    <2>1. (q + 1) * w <= d * w
      BY <1>1, ProductsGrow
    <2>2. (q + 1) * w = q * w + w /\ q * w \in Nat /\ d * w \in Nat
      OBVIOUS
    <2> QED BY <2>1, <2>2
  <1>2. CASE d = q /\ x >= z
    <2>1. q * w \in Nat
      OBVIOUS
    <2> QED BY <1>2, <2>1
  <1> QED BY <1>1, <1>2

(* The line is what it was.                                                *)
LEMMA YankedBack ==
    ASSUME NEW s, Sound(s), s.vx < s.vw, EndRow(s) + 1 < VH, imode,
           NEW k, k = KilledText(s), NEW t, t = Yank(Kill(s), k)
    PROVE  LineText(t) = LineText(s)
  <1> DEFINE a == TopRow(s)
             e == EndRow(s)
             m == Len(k)
  <1>1. /\ s \in Screen /\ e \in Rows /\ s.vy \in Rows /\ s.vy <= e /\ e \in Nat
        /\ s.vy \in Nat /\ s.vx \in Nat /\ s.vw \in Nat \ {0} /\ VH \in Nat
        /\ e + 1 \in Rows
    <2>1. s \in Screen /\ e \in Rows /\ s.vy \in Rows /\ s.vy <= e
          /\ s.vx \in Nat /\ s.vw \in Nat \ {0}
      BY SoundFacts
    <2>2. e \in Nat /\ s.vy \in Nat /\ VH \in Nat /\ e + 1 \in Rows
      BY <2>1, SizeFacts DEF Rows
    <2> QED BY <2>1, <2>2
  <1>2. Starts(s.cont, s.vy, a) /\ Ends(s.cont, s.vy, e)
    BY <1>1, StartIs, EndRowFacts
  <1>3. a \in Rows /\ a <= e /\ a \in Nat
    BY <1>1, <1>2, SizeFacts DEF Starts, Rows
  <1>4. LineText(s) = Trimmed(TextOf(s, a, e))
    BY DEF LineText
  <1> HIDE DEF a, e
  <1>5. CASE Retyped(s, t, m)
    <2>1. /\ Sound(t) /\ t \in Screen /\ t.vw = s.vw /\ t.cont = s.cont
          /\ Holds(s, t, e) /\ t.vy <= e /\ t.vy \in Rows
          /\ m \in Nat
      BY <1>5, KilledTextFacts, SoundFacts DEF Retyped, e
    <2>2. EndRow(t) = e /\ s.vy <= t.vy /\ t.vx \in ScreenCols(s)
      BY <1>5, <2>1, RetypedEnd DEF e
    <2>3. Starts(t.cont, t.vy, a)
      <3>1. s.vy \in Nat /\ t.vy \in Nat
        BY <1>1, <2>1, SizeFacts DEF Rows
      <3>2. ASSUME NEW r \in a .. t.vy - 1 PROVE r \in s.cont
        <4>1. r \in Int /\ r >= a /\ r < t.vy /\ t.vy <= e /\ e \in Nat
              /\ t.vy \in Nat /\ s.vy \in Nat /\ a \in Nat
          BY <1>1, <1>3, <2>1, <3>1
        <4>2. r \in a .. s.vy - 1 \/ r \in s.vy .. e - 1
          BY <4>1
        <4> QED BY <1>2, <4>2 DEF Starts, Ends
      <3>3. a <= t.vy /\ a <= s.vy
        BY <1>2, <1>3, <2>2, <3>1 DEF Starts
      <3> QED BY <1>2, <2>1, <3>2, <3>3 DEF Starts
    <2>4. TopRow(t) = a
      BY <2>1, <2>3, StartIs
    <2>5. ASSUME NEW r \in a .. e, NEW x \in ScreenCols(s)
          PROVE  t.chr[r][x] = s.chr[r][x]
      <3>1. r \in Rows /\ r <= e /\ r \in Nat
        BY <1>1, <1>3, SizeFacts DEF Rows
      <3>2. t.chr[r][x] = IF From(t, r, x) THEN Blank ELSE s.chr[r][x]
        BY <2>1, <3>1 DEF Holds
      <3>3. ASSUME From(t, r, x) PROVE s.chr[r][x] = Blank
        <4> DEFINE j == s.vx + m
                   q == j \div s.vw
                   z == j % s.vw
        <4>1. t.vy = s.vy + q /\ t.vx = z
          BY <1>5 DEF Retyped
        <4>2. j \in Nat
          BY <1>1, <2>1
        <4>3. j = q * s.vw + z /\ q \in Nat /\ z \in 0 .. s.vw - 1
          BY <1>1, <4>2, DivFacts
        <4> HIDE DEF q, z
        <4>4. r - s.vy \in Nat /\ r \in s.vy .. e
              /\ (r - s.vy > q \/ (r - s.vy = q /\ x >= z))
          <5>1. r > s.vy + q \/ (r = s.vy + q /\ x >= z)
            BY <3>3, <4>1 DEF From
          <5>2. q \in Nat /\ s.vy \in Nat /\ r \in Nat /\ r <= e /\ e \in Nat
            BY <1>1, <3>1, <4>3
          <5> QED BY <5>1, <5>2
        <4>5. x \in 0 .. s.vw - 1
          BY DEF ScreenCols
        <4>6. (r - s.vy) * s.vw + x >= q * s.vw + z
          BY <1>1, <4>3, <4>4, <4>5, ReadingOrder
        <4> QED BY <4>3, <4>4, <4>6, KilledTextFacts DEF e
      <3> QED BY <3>2, <3>3
    <2>6. SameRows(s, t, a, e) /\ BlankRows(s, t, e, e) /\ e <= e
      BY <1>1, <2>5 DEF SameRows, BlankRows
    <2>7. Trimmed(TextOf(t, a, e)) = Trimmed(TextOf(s, a, e))
      BY <1>1, <1>3, <2>1, <2>6, SameText
    <2> QED BY <1>4, <2>2, <2>4, <2>7 DEF LineText
  <1>6. CASE Regrown(s, t)
    <2>1. /\ Sound(t) /\ t \in Screen /\ t.vw = s.vw
          /\ t.vy = e + 1 /\ t.vx = 0
          /\ \A r \in Rows : r < e => (r \in t.cont <=> r \in s.cont)
          /\ e \in t.cont /\ e + 1 \notin t.cont
          /\ Holds(s, t, e + 1)
      BY <1>6, SoundFacts DEF Regrown, e
    <2>2. Ends(t.cont, t.vy, e + 1)
      BY <1>1, <2>1 DEF Ends
    <2>3. EndRow(t) = e + 1
      BY <1>1, <2>1, <2>2, EndIs DEF EndRow
    <2>4. Starts(t.cont, t.vy, a)
      <3>1. ASSUME NEW r \in a .. e PROVE r \in t.cont
        <4>1. r \in Rows /\ r <= e
          BY <1>1, <1>3, SizeFacts DEF Rows
        <4>2. r < e => r \in a .. s.vy - 1 \/ r \in s.vy .. e - 1
          BY <1>1, <1>3
        <4>3. r < e => r \in s.cont
          BY <1>2, <4>2 DEF Starts, Ends
        <4> QED BY <1>1, <1>3, <2>1, <4>1, <4>3
      <3>2. a = 0 \/ a - 1 \notin t.cont
        <4>1. a # 0 => a - 1 \in Rows /\ a - 1 < e
          BY <1>1, <1>3, SizeFacts DEF Rows
        <4> QED BY <1>2, <2>1, <4>1 DEF Starts
      <3> QED BY <1>1, <1>3, <2>1, <3>1, <3>2 DEF Starts
    <2>5. TopRow(t) = a
      BY <2>1, <2>4, StartIs
    <2>6. ASSUME NEW r \in Rows, NEW x \in ScreenCols(s), r <= e + 1
          PROVE  t.chr[r][x] = IF r = e + 1 THEN Blank ELSE s.chr[r][x]
      <3>1. From(t, r, x) <=> r = e + 1
        <4>1. r \in Nat /\ x >= 0
          BY <1>1, SizeFacts DEF ScreenCols, Rows
        <4> QED BY <1>1, <2>1, <2>6, <4>1 DEF From
      <3> QED BY <2>1, <2>6, <3>1 DEF Holds
    <2>7. ASSUME NEW r \in a .. e, NEW x \in ScreenCols(s)
          PROVE  t.chr[r][x] = s.chr[r][x]
      <3>1. r \in Rows /\ r <= e + 1 /\ r # e + 1
        BY <1>1, <1>3, SizeFacts DEF Rows
      <3> QED BY <2>6, <3>1
    <2>8. ASSUME NEW r \in e + 1 .. e + 1, NEW x \in ScreenCols(s)
          PROVE  t.chr[r][x] = Blank
      <3>1. r = e + 1
        BY <1>1
      <3> QED BY <1>1, <2>6, <3>1
    <2>9. Trimmed(TextOf(t, a, e + 1)) = Trimmed(TextOf(s, a, e))
      <3> DEFINE d == e + 1
      <3>1. e <= d /\ d \in Rows
        BY <1>1
      <3>2. SameRows(s, t, a, e) /\ BlankRows(s, t, e, d)
        BY <2>7, <2>8 DEF SameRows, BlankRows
      <3> HIDE DEF d
      <3>3. Trimmed(TextOf(t, a, d)) = Trimmed(TextOf(s, a, e))
        BY <1>1, <1>3, <2>1, <3>1, <3>2, SameText
      <3> QED BY <3>3 DEF d
    <2> QED BY <1>4, <2>3, <2>5, <2>9 DEF LineText
  <1>7. Retyped(s, t, m) \/ Regrown(s, t)
    BY RetypedAll DEF e
  <1> QED BY <1>5, <1>6, <1>7

-----------------------------------------------------------------------------
(* The keys and the calls.                                                 *)

(* The screen is fit to edit on after every key and every call.            *)
EInv == TypeOK /\ Ready(scr)

LEMMA ReadyShown ==
    ASSUME NEW s, Ready(s)
    PROVE  s \in Screen /\ ~Outside(s)
  <1>1. s \in Screen /\ s.vy \in Nat
    BY SoundFacts DEF Ready, Shown
  <1> QED BY <1>1 DEF Outside

LEMMA NoText ==
    << >> \in Seq(Char) /\ Len(<< >>) <= VH * MaxW
  <1>1. VH \in Nat /\ MaxW \in Nat /\ 0 * 0 <= VH * MaxW
    BY SizeAssumption, ProductsGrow
  <1> QED BY <1>1

LEMMA InitEInv ==
    Init => EInv
  BY ReadyInit, ReadyShown, NoText DEF Init, EInv, TypeOK

LEMMA FaultEInv ==
    ASSUME Fault PROVE EInv'
  <1>1. /\ scr' = InitScreen /\ cut' = <<>> /\ imode' = TRUE
        /\ editing' = FALSE /\ alive' = FALSE /\ line' = Null
    BY DEF Fault
  <1>2. Ready(scr') /\ scr' \in Screen
    BY <1>1, ReadyInit, ReadyShown
  <1> QED BY <1>1, <1>2, NoText DEF EInv, TypeOK

(* A key that leaves the screen fit keeps the invariant.                   *)
LEMMA KeyEInv ==
    ASSUME EInv, NEW t, NEW text \in Seq(Char), Len(text) <= VH * MaxW,
           Key(t, text), Outside(t) \/ Ready(t)
    PROVE  EInv'
  <1>1. CASE Outside(t)
    BY <1>1, FaultEInv DEF Key
  <1>2. CASE ~Outside(t)
    <2>1. /\ scr' = t /\ cut' = text
          /\ UNCHANGED <<imode, editing, line, alive>>
      BY <1>2 DEF Key
    <2>2. Ready(scr') /\ scr' \in Screen
      BY <1>2, <2>1, ReadyShown
    <2> QED BY <2>1, <2>2 DEF EInv, TypeOK
  <1> QED BY <1>1, <1>2

LEMMA CharEInv ==
    ASSUME EInv, NEW c \in Char, KeyChar(c) PROVE EInv'
  <1>1. /\ Ready(scr) /\ cut \in Seq(Char) /\ Len(cut) <= VH * MaxW
    BY DEF EInv, TypeOK
  <1>2. CASE imode
    <2> DEFINE t == InsCh(scr, c)
    <2>1. Key(Flushed(t), cut)
      BY <1>2 DEF KeyChar
    <2> HIDE DEF t
    <2>2. Yanking(scr, scr, 0)
      BY <1>1, YankingStart
    <2>3. Outside(t) \/ Yanking(scr, t, 1)
      BY <1>2, <2>2, YankingInsCh, 0 + 1 = 1 DEF t
    <2>4. 1 <= scr.vw
      BY <1>1, SoundFacts DEF Ready, Shown
    <2>5. Outside(Flushed(t)) \/ Ready(Flushed(t))
      BY <1>1, <2>3, <2>4, ReadyYanked
    <2> QED BY <1>1, <2>1, <2>5, KeyEInv
  <1>3. CASE ~imode
    <2>1. Key(VPutc(scr, c, TRUE), cut)
      BY <1>3 DEF KeyChar
    <2>2. Ready(VPutc(scr, c, TRUE))
      BY <1>1, ReadyKeys
    <2> QED BY <1>1, <2>1, <2>2, KeyEInv
  <1> QED BY <1>2, <1>3

LEMMA YankEInv ==
    ASSUME EInv, KeyYank, ~EditIsShown' => ~MayLeaveOld PROVE EInv'
  <1> DEFINE t == Yank(scr, cut)
             f == Flushed(t)
             n == Len(cut)
  <1>0. /\ Ready(scr) /\ cut \in Seq(Char) /\ n <= VH * MaxW
        /\ Sound(scr) /\ scr.vx < scr.vw /\ imode \in BOOLEAN
    BY DEF EInv, TypeOK, Ready, Shown
  <1>1. n \in Nat /\ scr.vw \in Nat
    <2>1. scr.vw \in Nat
      BY <1>0, SoundFacts
    <2> QED BY <1>0, <2>1
  <1>2. Key(f, cut)
    BY DEF KeyYank
  <1>3. Outside(t) \/ Yanking(scr, t, n)
    BY <1>0, YankFacts
  <1> HIDE DEF t, n
  <1>4. /\ ~Outside(t) => /\ Sound(f) /\ f.vis = TRUE /\ f.vx < f.vw
        /\ (imode => n <= scr.vw) => Outside(f) \/ Ready(f)
        /\ Outside(t) => Outside(f)
    BY <1>0, <1>1, <1>3, ReadyYanked
  <1> HIDE DEF f
  <1>5. CASE Outside(f) \/ Ready(f)
    BY <1>0, <1>2, <1>5, KeyEInv DEF n
  <1>6. CASE ~Outside(f) /\ ~Ready(f)
    <2>1. scr' = f
      BY <1>2, <1>6 DEF Key
    <2>2. n > scr.vw
      BY <1>1, <1>4, <1>6
    <2>3. EditIsShown'
      BY <2>2 DEF MayLeaveOld, n
    <2>4. Fresh(f) /\ Ended(f, TRUE)
      BY <2>1, <2>3 DEF EditIsShown, Fresh, Ended, ScreenCols
    <2> QED BY <1>4, <1>6, <2>4 DEF Ready, Shown
  <1> QED BY <1>5, <1>6

LEMMA RedrawEInv ==
    ASSUME EInv, KeyRedraw, ~EditIsShown' => ~MayLeaveOld PROVE EInv'
  <1> DEFINE t == Redraw(scr)
  <1>1. /\ Ready(scr) /\ cut \in Seq(Char) /\ Len(cut) <= VH * MaxW
        /\ Sound(scr) /\ scr.vx < scr.vw /\ scr.vis = TRUE
    BY DEF EInv, TypeOK, Ready, Shown
  <1>2. Key(t, cut)
    BY DEF KeyRedraw
  <1>3. EditIsShown'
    BY DEF MayLeaveOld
  <1>4. /\ t \in Screen /\ t.vw = scr.vw /\ t.vis = scr.vis
        /\ t.vx = scr.vx /\ t.vy = scr.vy /\ t.chr = scr.chr
        /\ t.px = scr.vx /\ t.py = scr.vy
        /\ \A y \in VH .. PH - 1, x \in PCols : t.glass[y][x] = Blank
    BY <1>1, RedrawFacts
  <1> HIDE DEF t
  <1>5. CASE Outside(t)
    BY <1>1, <1>2, <1>5, KeyEInv
  <1>6. CASE ~Outside(t)
    <2>1. scr' = t
      BY <1>2, <1>6 DEF Key
    <2>2. Fresh(t) /\ Ended(t, TRUE)
      BY <1>3, <2>1 DEF EditIsShown, Fresh, Ended, ScreenCols
    <2>3. t.gx = t.px /\ t.gy = t.py
      BY <1>1, <1>4, <2>2 DEF Ended
    <2>4. Sound(t)
      BY <1>1, <1>4, <2>3 DEF Sound, Tracked, ScreenCols
    <2>5. Ready(t)
      BY <1>1, <1>4, <2>2, <2>4 DEF Ready, Shown
    <2> QED BY <1>1, <1>2, <2>5, KeyEInv
  <1> QED BY <1>5, <1>6

(* Every step keeps the invariant.                                         *)
LEMMA NextEInv ==
    ASSUME EInv, Next, ~EditIsShown' => ~MayLeaveOld PROVE EInv'
  <1>0. /\ TypeOK /\ Ready(scr) /\ cut \in Seq(Char) /\ Len(cut) <= VH * MaxW
        /\ Sound(scr) /\ scr.vx < scr.vw
    BY DEF EInv, TypeOK, Ready, Shown
  <1>1. ASSUME NEW c \in Char \cup {"cr"}, Put(c) PROVE EInv'
    <2>1. /\ scr' = Putch(scr, c, TRUE) /\ line' = Null
          /\ UNCHANGED <<cut, imode, editing, alive>>
      BY <1>1 DEF Put
    <2>2. c \in Code
      BY <1>1 DEF Code, Control
    <2>3. Ready(scr') /\ scr' \in Screen
      BY <1>0, <2>1, <2>2, ReadyPutch, ReadyShown
    <2> QED BY <1>0, <2>1, <2>3 DEF EInv, TypeOK
  <1>2. CASE Getl
    <2>1. /\ scr' = Visible(scr) /\ line' = Null /\ editing' = TRUE
          /\ UNCHANGED <<cut, imode, alive>>
      BY <1>2 DEF Getl
    <2>2. Ready(scr') /\ scr' \in Screen
      BY <1>0, <2>1, ReadyKeys, ReadyShown
    <2> QED BY <1>0, <2>1, <2>2 DEF EInv, TypeOK
  <1>3. CASE \E c \in Char : KeyChar(c)
    BY <1>3, CharEInv
  <1>4. CASE KeyKill
    <2>1. KilledText(scr) \in Seq(Char) /\ Len(KilledText(scr)) <= VH * MaxW
      BY <1>0, KilledTextType
    <2> QED BY <1>0, <1>4, <2>1, ReadyKeys, KeyEInv DEF KeyKill
  <1>5. CASE KeyYank
    BY <1>5, YankEInv
  <1>6. CASE KeyErase
    BY <1>0, <1>6, ReadyKeys, KeyEInv DEF KeyErase
  <1>7. CASE KeyDelete
    BY <1>0, <1>7, ReadyKeys, KeyEInv DEF KeyDelete
  <1>8. CASE KeyTop
    BY <1>0, <1>8, ReadyKeys, KeyEInv DEF KeyTop
  <1>9. CASE KeyEnd
    BY <1>0, <1>9, ReadyKeys, KeyEInv DEF KeyEnd
  <1>10. CASE KeyTabulate
    BY <1>0, <1>10, ReadyTab, KeyEInv DEF KeyTabulate
  <1>11. CASE KeyMove
    <2>1. PICK t \in {VUp(scr, TRUE), VDown(scr, TRUE), VRight(scr, TRUE),
                      VLeft(scr, TRUE)} : Key(t, cut)
      BY <1>11 DEF KeyMove
    <2>2. Ready(t)
      BY <1>0, <2>1, ReadyKeys
    <2> QED BY <1>0, <2>1, <2>2, KeyEInv
  <1>12. CASE KeyClear
    BY <1>0, <1>12, ReadyKeys, KeyEInv DEF KeyClear
  <1>13. CASE KeyRedraw
    BY <1>13, RedrawEInv
  <1>14. CASE KeyImode
    BY <1>0, <1>14 DEF KeyImode, EInv, TypeOK
  <1>15. CASE KeyUnmapped
    <2>1. CASE UNCHANGED vars
      BY <1>0, <2>1 DEF vars, EInv, TypeOK
    <2> QED BY <1>15, <2>1, FaultEInv DEF KeyUnmapped
  <1>16. CASE KeyEnter
    <2>1. CASE Fault
      BY <2>1, FaultEInv
    <2>2. CASE /\ scr' = VCrlf(scr, TRUE) /\ editing' = FALSE
               /\ line' = LineText(scr) /\ UNCHANGED <<cut, imode, alive>>
      <3>1. Ready(scr') /\ scr' \in Screen
        BY <1>0, <2>2, ReadyKeys, ReadyShown
      <3>2. line' \in Seq(Char)
        BY <1>0, <2>2, LineTextType
      <3> QED BY <1>0, <2>2, <3>1, <3>2 DEF EInv, TypeOK
    <2> QED BY <1>16, <2>1, <2>2 DEF KeyEnter
  <1>17. CASE KeyBreak
    BY <1>0, <1>17 DEF KeyBreak, EInv, TypeOK
  <1>18. CASE Restart
    BY <1>0, <1>18 DEF Restart, EInv, TypeOK
  <1> QED
    BY <1>1, <1>2, <1>3, <1>4, <1>5, <1>6, <1>7, <1>8, <1>9, <1>10, <1>11,
       <1>12, <1>13, <1>14, <1>15, <1>16, <1>17, <1>18 DEF Next, EditKey

LEMMA EditInvariant ==
    MCSpec => []EInv
  <1>1. EInv /\ [Next /\ (~EditIsShown' => ~MayLeaveOld)]_vars => EInv'
    <2>1. EInv /\ UNCHANGED vars => EInv'
      BY DEF EInv, TypeOK, vars
    <2> QED BY <2>1, NextEInv
  <1> QED BY <1>1, InitEInv, PTL DEF MCSpec

(* The state of the editor (the screen, the cut buffer, the mode and the   *)
(* line given to the program) stays what its types say: the cursor and     *)
(* every marked cell stay within the arrays of src/src/screen.c, and the   *)
(* text C-k cuts fits scr_cutbuf, whatever the user types.                 *)
THEOREM EditTypes == MCSpec => []TypeOK
  BY EditInvariant, PTL DEF EInv

LEMMA ReadyIsShown ==
    EInv => EditIsShown
  BY DEF EInv, Ready, Shown, Fresh, Ended, ScreenCols, EditIsShown

(* The terminal shows the virtual screen after every key and every call,   *)
(* with its cursor, and XYADR, at the virtual cursor: in every state the   *)
(* editor reaches, but for the two keys MCSpec does not follow when they   *)
(* leave the terminal behind.                                              *)
THEOREM EditShown == MCSpec => []EditIsShown
  BY EditInvariant, ReadyIsShown, PTL

(* In insert mode C-y right after C-k gives back the line: the text that   *)
(* KilledText takes out of the group is put into the cells it came from,   *)
(* over every joined row, also where the group gets a row.                 *)
THEOREM YanksUndoKills == MCSpec => []YankUndoesKill
  <1>1. EInv => YankUndoesKill
    <2>1. SUFFICES ASSUME EInv, imode, EndRow(scr) < VH - 1
                   PROVE  LineText(Yank(Kill(scr), KilledText(scr))) =
                          LineText(scr)
      BY DEF YankUndoesKill
    <2>2. Sound(scr) /\ scr.vx < scr.vw
      BY <2>1 DEF EInv, Ready, Shown
    <2>3. EndRow(scr) + 1 < VH
      <3>1. EndRow(scr) \in Int /\ VH \in Int
        BY <2>2, SoundFacts, SizeFacts DEF Rows
      <3> QED BY <2>1, <3>1
    <2> QED BY <2>1, <2>2, <2>3, YankedBack
  <1> QED BY <1>1, EditInvariant, PTL

(* Every other key and every character of the program leaves its changes   *)
(* shown, whatever was joined, marked or scrolled before: the flags of     *)
(* scr_vlattr and the marks of scr_vattr miss no cell that a key changes.  *)
THEOREM EditsStayShown == MCSpec => StaysShown
  <1>1. EInv' => EditIsShown'
    BY DEF EInv, Ready, Shown, Fresh, Ended, ScreenCols, EditIsShown
  <1>2. EInv' => [EditIsShown => EditIsShown']_vars
    BY <1>1
  <1> QED BY <1>2, EditInvariant, PTL DEF StaysShown
=============================================================================
